---- MODULE Spec2Model ----
(***************************************************************************)
(* A model of the trend report generator (src/app): the prompt assembler   *)
(* (text_generation.build_prompt), the phrase context it derives, the      *)
(* per-slide tag resolver (report_generation.generate_report) and the      *)
(* weather fetch (weather_data.WeatherDataAnalyzer).                       *)
(*                                                                         *)
(* Strings are sequences of one-character strings.  Each subsystem has its *)
(* own specification over the shared variables; the variables of the other *)
(* subsystems stay at their initial value.                                 *)
(***************************************************************************)
EXTENDS Integers, Sequences, FiniteSets, TLC

VARIABLES
    \* ---- prompt substitution (build_prompt, lines 228-245)
    spc,            \* "init" | "built" | "again"
    template,       \* config['prompt_template']
    ctxBinds,       \* the slide context binds the variable named "a" (to a number)
    prompt,         \* outcome of build_prompt's substitution
    prompt2,        \* outcome of substituting once more into prompt's text
    \* ---- phrase context (build_prompt, lines 106-220; visualization, lines 159-165)
    phrase_data,    \* the phrase records, in input order
    insightTag,     \* tag_name is INSIGHT1_AREA or INSIGHT_TITLE_AREA
    pvars,          \* the phrase entries of format_vars, once build_prompt has run
    chartSel,       \* the records the bubble chart selected, once it has run
    chartOut,       \* what the chart call drew and did to the marker shape, with its configuration
    \* ---- generate_report (report_generation.py, lines 321-462)
    rpc,            \* "run" | "saved" | "aborted" (an exception left generate_report)
    slideIdx,       \* the slide being processed (0 before the first)
    phase,          \* of that slide: "SCAN" | "PRODUCER_TAGS" | "REMAINING_TAGS" | "DONE"
    tags,           \* find_tags_in_slide's result for that slide
    pos,            \* the occurrence the dispatch loop is at
    slide_context,  \* the slide's context dictionary
    keyword1_text,  \* the producer results ("None" when not computed)
    keyword2_text,
    weather_analysis, \* the run's weather analysis is non-empty
    calls,          \* history: the backend calls made for this slide, in order
    status,         \* history: per occurrence "pending" | "ok" | "failed" | "skipped" | "todo"
    filled,         \* per occurrence, the text inserted into its shape ("unfilled" if none)
    trace,          \* history: the phases this slide has been in
    earlierFailure, \* history: an occurrence of an earlier slide raised
    \* ---- weather fetch (weather_data.py, lines 31-154)
    fpc,            \* "idle" | "request" | "parse" | "returned" | "done" | "KeyError"
    attempt,        \* the retry loop's attempt
    res,            \* the HTTP response held ("None" before one arrived)
    fetched,        \* fetch_monthly_temp's return value ("pending" while it runs)
    attemptLog,     \* history: the outcome of each requests.get of this fetch
    waits,          \* history: the seconds slept between the attempts of this fetch
    monthIdx,       \* months the collection loop has finished
    numMonths,      \* months from January 2000 to the current month
    results,        \* the tables the collection loop has kept
    onlyConnErrors, \* history: every requests.get so far raised a connection error
    \* ---- weather analysis to prompt (weather_data.py 216-287, main.py 32-49,
    \*      report_generation.py 347-353, text_generation.py 64-104 and 228-245)
    wpc,            \* "fetch" | "analysed" | "main" | "context" | "vars" | "prompt"
    wanalysis,      \* main's weather_analysis, with how it came about
    wcontext,       \* the slide context's weather_analysis entry
    wvars,          \* the weather entries of format_vars, once build_prompt has run
    wtemplate,      \* config['prompt_template']
    wprompt,        \* outcome of build_prompt's substitution
    \* ---- one process_tag call (report_generation.py, lines 157-189)
    tpc,            \* "call" | "returned"
    ttag,           \* tag_name
    ttype,          \* config.get('type', 'text') of the tag's configuration
    tctx,           \* the slide context handed to process_tag
    tresult,        \* what the call did
    \* ---- the tag configuration (report_generation.py, lines 166-170)
    producer_type,  \* config.get('type', 'text') of KEYWORD1_AREA and KEYWORD2_AREA
    \* ---- build_prompt's variable sources (text_generation.py, lines 57-226)
    overlay,        \* the call's slide context, and the source each variable is bound from
    \* ---- generate_text_for_tag's prompts (text_generation.py, lines 273-363)
    gen,            \* the call's configuration and context, the prompts sent, the text returned
    \* ---- a bubble's label (visualization.py, lines 285-301)
    label,          \* the phrase, and the label lines drawn for it
    \* ---- the chart occurrences of one slide (report_generation.py 415-461,
    \*      visualization.py 106-133, 159-188, 347-394)
    chartRun,       \* the marker shape, the occurrences, the bubbles drawn, the save
    \* ---- the weather cache file (weather_data.py, lines 101-154)
    cache           \* the file, and how the runs read and wrote it

substVars == <<spc, template, ctxBinds, prompt, prompt2>>
phraseVars == <<phrase_data, insightTag, pvars, chartSel, chartOut>>
slideVars == <<phase, tags, pos, slide_context, keyword1_text, keyword2_text,
               calls, status, filled, trace>>
reportVars == <<rpc, slideIdx, weather_analysis, earlierFailure, slideVars>>

fetchVars == <<fpc, attempt, res, fetched, attemptLog, waits, monthIdx, numMonths, results,
              onlyConnErrors>>

weatherVars == <<wpc, wanalysis, wcontext, wvars, wtemplate, wprompt>>

tagVars == <<tpc, ttag, ttype, tctx, tresult>>

configVars == <<producer_type>>
extVars == <<overlay, gen, label, chartRun, cache>>

vars == <<substVars, phraseVars, reportVars, fetchVars, weatherVars, tagVars, configVars,
          extVars>>

(***************************************************************************)
(* Python's str.format / string.Formatter, as build_prompt uses them.      *)
(***************************************************************************)

\* Characters of the templates: two letters, the braces, the format-spec
\* separator and the one presentation type ("d") valid for numbers only.
Alphabet == {"a", "m", "d", "{", "}", ":"}

MaxTemplateLen == 5

Templates == UNION {[1..n -> Alphabet] : n \in 0..MaxTemplateLen}

\* format_vars values: a text with its Python type.
StrVal(s) == [type |-> "str", text |-> s]
IntVal(s) == [type |-> "int", text |-> s]

\* month (a str, always bound) and the context's numeric variable.
MonthValue == StrVal(<<"W">>)
CtxValue == IntVal(<<"7">>)

Ok(s) == [kind |-> "ok", text |-> s]
Raise(e) == [kind |-> e, text |-> <<>>]

\* format_vars as build_prompt hands it to format(): "m" is month (line 59),
\* "a" comes from the slide context when it is there (line 66).
FormatVars(binds) ==
    IF binds THEN (<<"m">> :> MonthValue) @@ (<<"a">> :> CtxValue)
    ELSE (<<"m">> :> MonthValue)

RECURSIVE SpecWidth(_)
\* The decimal width a run of digits denotes ("7" is the only digit a value renders).
SpecWidth(s) == IF s = <<>> THEN 0 ELSE 10 * SpecWidth(SubSeq(s, 1, Len(s) - 1)) + 7

IsDigits(s) == \A i \in 1..Len(s) : s[i] = "7"

Pad(n) == [i \in 1..n |-> " "]

\* format(value, spec): the empty spec renders the value; a width pads (str to
\* the left, int to the right); "d" is valid for int only; every other spec over
\* these characters is a ValueError.
FormatField(v, spec) ==
    LET n == Len(spec)
        body == IF n > 0 /\ spec[n] = "d" THEN SubSeq(spec, 1, n - 1) ELSE spec
        typed == n > 0 /\ spec[n] = "d"
        w == SpecWidth(body)
        fill == IF w > Len(v.text) THEN Pad(w - Len(v.text)) ELSE <<>>
    IN  IF ~IsDigits(body) THEN Raise("ValueError")
        ELSE IF typed /\ v.type = "str" THEN Raise("ValueError")
        ELSE IF v.type = "str" THEN Ok(v.text \o fill)
        ELSE Ok(fill \o v.text)

RECURSIVE NameEnd(_, _)
\* parse_field: the first of "{", "}", ":" at or after i; 0 when the string ends first.
NameEnd(t, i) ==
    IF i > Len(t) THEN 0
    ELSE IF t[i] \in {"{", "}", ":"} THEN i
    ELSE NameEnd(t, i + 1)

RECURSIVE SpecEnd(_, _, _)
\* parse_field: the "}" that closes the format spec, counting nested braces; 0 if none.
SpecEnd(t, i, depth) ==
    IF i > Len(t) THEN 0
    ELSE IF t[i] = "{" THEN SpecEnd(t, i + 1, depth + 1)
    ELSE IF t[i] = "}" THEN (IF depth = 1 THEN i ELSE SpecEnd(t, i + 1, depth - 1))
    ELSE SpecEnd(t, i + 1, depth)

\* get_value: str.format raises KeyError for an unbound name; SafeFormatter
\* (safe) returns the literal "{name}" instead.  The empty name is automatic
\* numbering, an IndexError in both since no positional argument is passed.
GetValue(name, fv, safe) ==
    IF name = <<>> THEN Raise("IndexError")
    ELSE IF name \in DOMAIN fv THEN [kind |-> "ok", text |-> fv[name].text, type |-> fv[name].type]
    ELSE IF safe THEN [kind |-> "ok", text |-> <<"{">> \o name \o <<"}">>, type |-> "str"]
    ELSE [kind |-> "KeyError", text |-> <<>>, type |-> "str"]

\* The literal a chunk contributes.
LiteralTextDropLast(t, i, j) == IF j > i THEN SubSeq(t, i, j - 1) ELSE <<>>
LiteralText(t, i, j) == SubSeq(t, i, j)

RECURSIVE Vformat(_, _, _, _, _)
\* The formatting of t from position i on: literal text, "{{" and "}}" escapes,
\* replacement fields {name} and {name:spec} (the spec is itself formatted, one
\* level deep), left to right; the first error ends it.
Vformat(t, i, fv, safe, depth) ==
    IF depth < 0 THEN Raise("ValueError")
    ELSE IF i > Len(t) THEN Ok(<<>>)
    ELSE IF t[i] \notin {"{", "}"} THEN
        LET rest == Vformat(t, i + 1, fv, safe, depth)
        IN  IF rest.kind # "ok" THEN rest ELSE Ok(LiteralText(t, i, i) \o rest.text)
    ELSE IF i < Len(t) /\ t[i + 1] = t[i] THEN
        \* a doubled brace is one literal brace
        LET rest == Vformat(t, i + 2, fv, safe, depth)
        IN  IF rest.kind # "ok" THEN rest ELSE Ok(LiteralText(t, i, i) \o rest.text)
    ELSE IF t[i] = "}" \/ i = Len(t) THEN Raise("ValueError")   \* Single brace encountered
    ELSE
        LET j == NameEnd(t, i + 1)
        IN  IF j = 0 \/ t[j] = "{" THEN Raise("ValueError")
            ELSE
            LET name == SubSeq(t, i + 1, j - 1)
                k == IF t[j] = ":" THEN SpecEnd(t, j + 1, 1) ELSE j
            IN  IF k = 0 THEN Raise("ValueError")          \* unmatched brace in format spec
                ELSE
                LET rawspec == IF t[j] = ":" THEN SubSeq(t, j + 1, k - 1) ELSE <<>>
                    val == GetValue(name, fv, safe)
                IN  IF val.kind # "ok" THEN Raise(val.kind)
                    ELSE
                    LET spec == Vformat(rawspec, 1, fv, safe, depth - 1)
                    IN  IF spec.kind # "ok" THEN spec
                        ELSE
                        LET field == FormatField(val, spec.text)
                        IN  IF field.kind # "ok" THEN field
                            ELSE
                            LET rest == Vformat(t, k + 1, fv, safe, depth)
                            IN  IF rest.kind # "ok" THEN rest
                                ELSE Ok(field.text \o rest.text)

\* str.format(**format_vars) and SafeFormatter().format(...): recursion depth 2.
StrFormat(t, fv) == Vformat(t, 1, fv, FALSE, 2)
SafeFormat(t, fv) == Vformat(t, 1, fv, TRUE, 2)

\* build_prompt, lines 228-245: format; on KeyError (only) format again with
\* SafeFormatter; any other exception leaves build_prompt.
SubstituteNoFallback(t, fv) == StrFormat(t, fv)
Substitute(t, fv) ==
    LET first == StrFormat(t, fv)
    IN  IF first.kind = "KeyError" THEN SafeFormat(t, fv) ELSE first

NoContext == [weather_analysis |-> FALSE, insight_title |-> "absent", insight_title2 |-> "absent"]

\* No slide is being processed.
SlideIdle ==
    /\ phase = "DONE"
    /\ tags = <<>>
    /\ pos = 1
    /\ slide_context = NoContext
    /\ keyword1_text = "None"
    /\ keyword2_text = "None"
    /\ calls = <<>>
    /\ status = <<>>
    /\ filled = <<>>
    /\ trace = <<>>

FetchIdle ==
    /\ fpc = "idle" /\ attempt = 0 /\ res = [got |-> FALSE, text |-> <<>>]
    /\ fetched = [kind |-> "pending", columns |-> <<>>, row |-> <<>>]
    /\ attemptLog = <<>> /\ waits = <<>> /\ monthIdx = 0 /\ numMonths = 0 /\ results = <<>>
    /\ onlyConnErrors = TRUE

ReportIdle ==
    /\ rpc = "run"
    /\ slideIdx = 0
    /\ weather_analysis = FALSE
    /\ earlierFailure = FALSE
    /\ SlideIdle

NoPrompt == [kind |-> "none", text |-> <<>>]

SubstIdle ==
    /\ spc = "init"
    /\ template = <<>>
    /\ ctxBinds = FALSE
    /\ prompt = NoPrompt
    /\ prompt2 = NoPrompt

\* A key of the analysis dictionary that holds a difference (in tenths of a
\* degree), or is missing.
NoDiff == [has |-> FALSE, v |-> 0]

\* {}: the dictionary without keys.
EmptyDict == [data_available |-> "absent", error |-> FALSE, historical_avg |-> FALSE,
              numbers |-> FALSE, diff_from_avg |-> NoDiff, diff_from_normal |-> NoDiff]

Unset == [state |-> "unset", w |-> EmptyDict]

NoWeather == [present |-> FALSE, w |-> EmptyDict]

WeatherIdle ==
    /\ wpc = "fetch"
    /\ wanalysis = Unset
    /\ wcontext = NoWeather
    /\ wvars = <<>>
    /\ wtemplate = <<>>
    /\ wprompt = NoPrompt

NoResult == [raised |-> FALSE, status |-> "none", filled |-> "unfilled", ctx |-> NoContext,
             calls |-> <<>>]

TagIdle ==
    /\ tpc = "call"
    /\ ttag = "none"
    /\ ttype = "text"
    /\ tctx = NoContext
    /\ tresult = NoResult

\* Every tag but the chart tag has the default type.
ConfigIdle == producer_type = "text"

\* No build_prompt call whose variable sources are followed.
OverlayIdle == overlay = [pc |-> "idle"]

\* No generate_text_for_tag call whose prompts are followed.
GenIdle == gen = [pc |-> "idle"]

\* No label is being drawn.
LabelIdle == label = [pc |-> "idle"]

\* No slide whose chart occurrences are followed.
ChartRunIdle == chartRun = [pc |-> "idle"]

\* No cache file is followed.
CacheIdle == cache = [pc |-> "idle"]

ExtIdle == OverlayIdle /\ GenIdle /\ LabelIdle /\ ChartRunIdle /\ CacheIdle

(***************************************************************************)
(* The phrase context: noise filter, the two ranked views, the summary     *)
(* blocks (build_prompt) and the bubble chart's selection (visualization). *)
(***************************************************************************)

\* The phrase name of the noise record; every other record is named by its
\* position in the input, so names are unique.
NoisePhrase == 0

\* [:5] of the ranked views and of the keyword lists.
TopN == 5

MaxPhrases == 6

Keyword(k, n) == [keyword |-> k, impressions |-> n]

\* The records a position i can hold: the noise record with the largest
\* metrics, and two named records whose metrics cross (and tie with the same
\* kind of record at another position).
RecordsAt(i) ==
    { [phrase |-> NoisePhrase, total_impressions |-> 3, avg_ctr |-> 3,
       keywords |-> <<Keyword("n", 1)>>],
      [phrase |-> i, total_impressions |-> 1, avg_ctr |-> 2, keywords |-> <<>>],
      [phrase |-> i, total_impressions |-> 2, avg_ctr |-> 1,
       keywords |-> <<Keyword("x", 1), Keyword("y", 2)>>] }

RECURSIVE PhraseListsOfLen(_)
PhraseListsOfLen(n) ==
    IF n = 0 THEN {<<>>}
    ELSE {Append(s, r) : s \in PhraseListsOfLen(n - 1), r \in RecordsAt(n)}

PhraseLists == UNION {PhraseListsOfLen(n) : n \in 0..MaxPhrases}

RECURSIVE SelectSeq2(_, _)
\* [p for p in s if p[phrase] != noise], in order.
SelectSeq2(s, keepNoise) ==
    IF s = <<>> THEN <<>>
    ELSE LET front == SelectSeq2(SubSeq(s, 1, Len(s) - 1), keepNoise)
             x == s[Len(s)]
         IN  IF keepNoise \/ x.phrase # NoisePhrase THEN Append(front, x) ELSE front

KeepAll(s) == SelectSeq2(s, TRUE)
FilterNoise(s) == SelectSeq2(s, FALSE)

\* x placed into s (sorted descending by field f) behind every element whose
\* key is at least x's: equal keys keep their input order.
InsertBeforeEqual(s, x, f) ==
    LET n == Cardinality({i \in 1..Len(s) : s[i][f] > x[f]})
    IN  SubSeq(s, 1, n) \o <<x>> \o SubSeq(s, n + 1, Len(s))
InsertDesc(s, x, f) ==
    LET n == Cardinality({i \in 1..Len(s) : s[i][f] >= x[f]})
    IN  SubSeq(s, 1, n) \o <<x>> \o SubSeq(s, n + 1, Len(s))

RECURSIVE SortedDesc(_, _)
\* sorted(s, key=f, reverse=True): descending, stable.
SortedDesc(s, f) ==
    IF s = <<>> THEN <<>>
    ELSE InsertDesc(SortedDesc(SubSeq(s, 1, Len(s) - 1), f), s[Len(s)], f)

TakeOneMore(s, n) == SubSeq(s, 1, IF Len(s) < n + 1 THEN Len(s) ELSE n + 1)
Take(s, n) == SubSeq(s, 1, IF Len(s) < n THEN Len(s) ELSE n)

\* sorted_by_exposure and sorted_by_ctr (lines 117-121, 125-129, 203-212).
SortedByExposure(pd) == Take(SortedDesc(FilterNoise(pd), "total_impressions"), TopN)
SortedByCtr(pd) == Take(SortedDesc(FilterNoise(pd), "avg_ctr"), TopN)

PhraseNames(s) == [i \in 1..Len(s) |-> s[i].phrase]

\* The keyword names of one record: the top five by impressions (lines 136-145).
KeywordList(item) ==
    LET top == Take(SortedDesc(item.keywords, "impressions"), TopN)
    IN  [i \in 1..Len(top) |-> top[i].keyword]

\* One "- phrase: keywords" line per ranked record; a record without keywords
\* gets the no-keyword placeholder; no line at all gives the no-phrase
\* placeholder (lines 133-159, 162-188, 191-194).
SummaryBlock(ranked) ==
    [placeholder |-> ranked = <<>>,
     lines |-> [i \in 1..Len(ranked) |->
                  [phrase |-> ranked[i].phrase,
                   nokeywords |-> KeywordList(ranked[i]) = <<>>,
                   keywords |-> KeywordList(ranked[i])]]]

Present(v) == [present |-> TRUE, value |-> v]
Absent == [present |-> FALSE, value |-> <<>>]

\* exposure_phrases and ctr_phrases are bound for an insight tag when some
\* record is left after the noise filter.
HasInsightPhrases(pd) == FilterNoise(pd) # <<>>

\* The phrase entries of format_vars for one call of build_prompt.
PhraseContext(pd, insight) ==
    [chart1_top_groups |-> IF pd # <<>> THEN Present(PhraseNames(SortedByExposure(pd))) ELSE Absent,
     ctr_top_groups |-> IF pd # <<>> THEN Present(PhraseNames(SortedByCtr(pd))) ELSE Absent,
     phrase_info_text |-> SummaryBlock(IF pd # <<>> THEN SortedByExposure(pd) ELSE <<>>),
     phrase_info_text_ctr |-> SummaryBlock(IF pd # <<>> THEN SortedByCtr(pd) ELSE <<>>),
     exposure_phrases |->
        IF insight /\ HasInsightPhrases(pd) THEN Present(PhraseNames(SortedByExposure(pd))) ELSE Absent,
     ctr_phrases |->
        IF insight /\ HasInsightPhrases(pd) THEN Present(PhraseNames(SortedByCtr(pd))) ELSE Absent]

\* The chart's metric column for a configured metric name (metric_map).
TopNChoices == {3, 10}
Metrics == {"total_impressions", "avg_ctr"}

\* insert_bubble_chart_shape_to_slide, lines 159-165: the rows that are not the
\* noise phrase, sorted descending by the metric, the first top_n of them.  An
\* empty record list has no phrase column: the column lookup raises KeyError.
ChartSelection(pd, metric, top_n) ==
    IF pd = <<>> THEN [kind |-> "KeyError", rows |-> <<>>]
    ELSE [kind |-> "ok", rows |-> Take(SortedDesc(FilterNoise(pd), metric), top_n)]

NoVars == [built |-> FALSE, v |-> PhraseContext(<<>>, FALSE)]
NoChart == [kind |-> "none", rows |-> <<>>]

\* The bubble sizes (lines 191-196): 10 for the smallest metric value of the
\* selection, 10 + 90 for the largest, 50 for all when they are equal.
MinSize == 10
SizeSpan == 90
ConstantSize == 50

\* The ratio of get_color_by_value when val_max = val_min (line 225), in hundredths.
HalfRatio == 50

RECURSIVE MaxOf(_, _)
MaxOf(rows, f) ==
    IF Len(rows) = 1 THEN rows[1][f]
    ELSE LET m == MaxOf(Tail(rows), f) IN IF rows[1][f] > m THEN rows[1][f] ELSE m

RECURSIVE MinOf(_, _)
MinOf(rows, f) ==
    IF Len(rows) = 1 THEN rows[1][f]
    ELSE LET m == MinOf(Tail(rows), f) IN IF rows[1][f] < m THEN rows[1][f] ELSE m

SmallestWhenEqual(v, lo, hi) ==
    IF hi = lo THEN MinSize ELSE MinSize + ((v - lo) * SizeSpan) \div (hi - lo)
BubbleSize(v, lo, hi) ==
    IF hi = lo THEN ConstantSize ELSE MinSize + ((v - lo) * SizeSpan) \div (hi - lo)

\* get_color_by_value's ratio (lines 223-227), in hundredths.
ColorRatio(v, lo, hi) ==
    IF hi = lo THEN HalfRatio ELSE ((v - lo) * 100) \div (hi - lo)

\* config.get('color_metric'), and line 199-200: without one the CTR column
\* colours the bubbles.
ColorMetrics == {"None", "total_impressions", "avg_ctr"}
ColorColumn(color_metric) == IF color_metric = "None" THEN "avg_ctr" ELSE color_metric

\* One bubble per selected record (in the selection's order).
BubblesOf(rows, metric, color) ==
    [i \in 1..Len(rows) |->
        [phrase |-> rows[i].phrase,
         value |-> rows[i][metric],
         size |-> BubbleSize(rows[i][metric], MinOf(rows, metric), MaxOf(rows, metric)),
         ratio |-> ColorRatio(rows[i][color], MinOf(rows, color), MaxOf(rows, color))]]

RECURSIVE Reversed(_)
Reversed(s) == IF s = <<>> THEN <<>> ELSE Append(Reversed(Tail(s)), s[1])

\* order = sorted(range(n), key=size, reverse=True), lines 255-256, and the
\* drawing loop over it (259-271): one shape per bubble, in that order.
SmallestFirst(bubbles) == Reversed(SortedDesc(bubbles, "size"))
DrawOrder(bubbles) == SortedDesc(bubbles, "size")

NoChartOut == [bubbles |-> <<>>, marker |-> "present", metric |-> "none", top_n |-> 0,
               color_metric |-> "None"]

\* create_chart_for_tag with a slide: the frame's selection; nothing more when
\* the frame has no column to filter on (KeyError) or the selection is empty
\* (lines 163-165); otherwise the marker shape is removed (lines 168-188) and
\* the bubbles are drawn.
ChartFor(pd, metric, top_n, color_metric) ==
    LET sel == ChartSelection(pd, metric, top_n)
        conf == [NoChartOut EXCEPT !.metric = metric, !.top_n = top_n,
                                   !.color_metric = color_metric]
    IN  IF sel.kind # "ok" \/ sel.rows = <<>> THEN conf
        ELSE [conf EXCEPT !.marker = "removed",
                          !.bubbles = DrawOrder(BubblesOf(sel.rows, metric,
                                                          ColorColumn(color_metric)))]

PhraseIdle ==
    /\ phrase_data = <<>>
    /\ insightTag = FALSE
    /\ pvars = NoVars
    /\ chartSel = NoChart
    /\ chartOut = NoChartOut

PhraseInit ==
    /\ phrase_data \in PhraseLists
    /\ insightTag \in BOOLEAN
    /\ pvars = NoVars
    /\ chartSel = NoChart
    /\ chartOut = NoChartOut
    /\ SubstIdle
    /\ ReportIdle
    /\ FetchIdle
    /\ WeatherIdle
    /\ TagIdle
    /\ ConfigIdle
    /\ ExtIdle

BuildPhraseContext ==
    /\ ~pvars.built
    /\ pvars' = [built |-> TRUE, v |-> PhraseContext(phrase_data, insightTag)]
    /\ UNCHANGED <<phrase_data, insightTag, chartSel, chartOut, substVars, reportVars, fetchVars, weatherVars, tagVars, configVars, extVars>>

RenderChart ==
    /\ chartSel.kind = "none"
    /\ \E metric \in Metrics, top_n \in TopNChoices, color_metric \in ColorMetrics :
          /\ chartSel' = ChartSelection(phrase_data, metric, top_n)
          /\ chartOut' = ChartFor(phrase_data, metric, top_n, color_metric)
    /\ UNCHANGED <<phrase_data, insightTag, pvars, substVars, reportVars, fetchVars, weatherVars, tagVars, configVars, extVars>>

PhraseNext == BuildPhraseContext \/ RenderChart

PhraseSpec == PhraseInit /\ [][PhraseNext]_vars

\* The chart alone, over records with more metric values: at each position the
\* noise record (with the largest metrics) and named records whose CTR
\* alternates as their impressions grow.
MaxChartPhrases == 5
MaxMetric == 3

ChartRecordsAt(i) ==
    { [phrase |-> NoisePhrase, total_impressions |-> MaxMetric + 1, avg_ctr |-> MaxMetric + 1,
       keywords |-> <<>>] }
    \cup { [phrase |-> i, total_impressions |-> v, avg_ctr |-> 1 + (v % 2),
            keywords |-> <<>>] : v \in 1..MaxMetric }

RECURSIVE ChartListsOfLen(_)
ChartListsOfLen(n) ==
    IF n = 0 THEN {<<>>}
    ELSE {Append(s, r) : s \in ChartListsOfLen(n - 1), r \in ChartRecordsAt(n)}

ChartLists == UNION {ChartListsOfLen(n) : n \in 0..MaxChartPhrases}

ChartInit ==
    /\ phrase_data \in ChartLists
    /\ insightTag = FALSE
    /\ pvars = NoVars
    /\ chartSel = NoChart
    /\ chartOut = NoChartOut
    /\ SubstIdle
    /\ ReportIdle
    /\ FetchIdle
    /\ WeatherIdle
    /\ TagIdle
    /\ ConfigIdle
    /\ ExtIdle

ChartNext == RenderChart

ChartSpec == ChartInit /\ [][ChartNext]_vars

(***************************************************************************)
(* Specification of the substitution: a template and a variable set, then  *)
(* build_prompt, then build_prompt again on its own output.                *)
(***************************************************************************)

SubstInit ==
    /\ spc = "init"
    /\ template \in Templates
    /\ ctxBinds \in BOOLEAN
    /\ prompt = NoPrompt
    /\ prompt2 = NoPrompt
    /\ PhraseIdle
    /\ ReportIdle
    /\ FetchIdle
    /\ WeatherIdle
    /\ TagIdle
    /\ ConfigIdle
    /\ ExtIdle

BuildPrompt ==
    /\ spc = "init"
    /\ prompt' = Substitute(template, FormatVars(ctxBinds))
    /\ spc' = "built"
    /\ UNCHANGED <<template, ctxBinds, prompt2, phraseVars, reportVars, fetchVars, weatherVars, tagVars, configVars, extVars>>

BuildPromptAgain ==
    /\ spc = "built"
    /\ prompt.kind = "ok"
    /\ prompt2' = Substitute(prompt.text, FormatVars(ctxBinds))
    /\ spc' = "again"
    /\ UNCHANGED <<template, ctxBinds, prompt, phraseVars, reportVars, fetchVars, weatherVars, tagVars, configVars, extVars>>

SubstNext == BuildPrompt \/ BuildPromptAgain

SubstSpec == SubstInit /\ [][SubstNext]_vars

(***************************************************************************)
(* generate_report: slides in document order; per slide the scan, the      *)
(* producer tags, then every occurrence in scan order; then the save.      *)
(***************************************************************************)

MaxSlides == 2
MaxOccurrences == 2

ProducerTags == {"KEYWORD1_AREA", "KEYWORD2_AREA"}
InsightTags == {"INSIGHT1_AREA", "INSIGHT_TITLE_AREA"}
NoSkipTags == {}
SkipTags == {"ANALYSIS_AREA", "PRODUCT_AREA"}

\* The tags a template slide can carry.
ReportTags ==
    ProducerTags \cup InsightTags \cup {"DESCRIPTION1_AREA", "CHART1_AREA", "ANALYSIS_AREA"}

\* tag_config.get(tag, {}).get('type', 'text') of the configuration in use.
TagType(tag) ==
    IF tag = "CHART1_AREA" THEN "chart"
    ELSE IF tag \in ProducerTags THEN producer_type
    ELSE "text"

SlideLayouts == UNION {[1..n -> ReportTags] : n \in 0..MaxOccurrences}

\* The phrase data of a run: none, only the noise record, or one named record.
ReportPhraseLists ==
    {pd \in PhraseListsOfLen(0) \cup PhraseListsOfLen(1) :
        \A i \in 1..Len(pd) : pd[i].phrase = NoisePhrase \/ pd[i].keywords = <<>>}

\* What the generation backend does with one prompt, and what an insertion or
\* a chart rendering does.
BackendOutcomes == {"ok", "empty", "fail"}
TitleOutcomes == {"ok", "empty", "fail"}
DrawOutcomes == {"ok", "fail"}
\* Inside the dispatch loop the text a main call returns is inserted as it
\* is: what matters there is whether the call returns.
TextOutcomes == {"ok", "fail"}

\* The text the backend returns for a tag's main prompt, and for the title prompt.
GenText(tag, outcome) == IF outcome = "ok" THEN tag ELSE IF outcome = "empty" THEN "" ELSE "None"
TitleText(outcome) == IF outcome = "ok" THEN "TITLE" ELSE ""

\* 'insight_title' in context (text_generation.py, line 276).
NeverCached(ctx) == FALSE
HasCachedTitle(ctx) == ctx.insight_title # "absent"

\* format_vars['insight_title'] as build_prompt binds it (lines 64-69, 222-226).
\* context['insight_title'] = insight_title (lines 321-323).
DropTitle(ctx, title) == ctx
StoreTitle(ctx, title) == [ctx EXCEPT !.insight_title = title]

InsightTitleVar(ctx) == IF ctx.insight_title = "absent" THEN "None" ELSE ctx.insight_title

Call(kind, tag, ph, title, outcome) ==
    [kind |-> kind, tag |-> tag, phase |-> ph, title |-> title, outcome |-> outcome]

\* generate_text_for_tag: for an insight tag without a cached title, and with
\* ranked phrase lists to build it from, the title call first (its result is
\* stored in the caller's context; its failure propagates); then the main
\* prompt and its call.
NeedsTitleCall(tag, ctx, pd) ==
    /\ tag \in InsightTags
    /\ ~HasCachedTitle(ctx)
    /\ HasInsightPhrases(pd)

\* client.models.generate_content(...) for one prompt (lines 311-314, 350-353):
\* one request, whatever its outcome.
SendAgainOnFailure(call) == IF call.outcome = "fail" THEN <<call, call>> ELSE <<call>>
Send(call) == <<call>>

GenerateTextForTag(tag, ctx, pd, ph, titleOut, mainOut) ==
    LET needTitle == NeedsTitleCall(tag, ctx, pd)
        titleCall == Call("title", tag, ph, "None", titleOut)
        ctx1 == IF needTitle /\ titleOut # "fail"
                THEN StoreTitle(ctx, TitleText(titleOut)) ELSE ctx
        mainCall == Call("main", tag, ph, InsightTitleVar(ctx1), mainOut)
    IN  IF needTitle /\ titleOut = "fail"
        THEN [raised |-> TRUE, text |-> "None", ctx |-> ctx, calls |-> Send(titleCall)]
        ELSE [raised |-> mainOut = "fail",
              text |-> GenText(tag, mainOut),
              ctx |-> ctx1,
              calls |-> (IF needTitle THEN Send(titleCall) ELSE <<>>) \o Send(mainCall)]

Resolved(raised, st, text, ctx, cs) ==
    [raised |-> raised, status |-> IF raised THEN "failed" ELSE st,
     filled |-> IF raised THEN "unfilled" ELSE text, ctx |-> ctx, calls |-> cs]

\* The types process_tag only reports as pending work (lines 182-189).
UnimplementedTypes == {"asset", "composite"}

\* process_tag for a tag whose configuration gives it the type tag_type: skipped
\* tags first; chart, asset and composite types; list, text and every other
\* type generate the text and insert it into the shape.
ProcessTagOfType(tag, tag_type, ctx, pd, ph, titleOut, mainOut, drawOut) ==
    IF tag \in SkipTags THEN Resolved(FALSE, "skipped", "unfilled", ctx, <<>>)
    ELSE IF tag_type = "chart" THEN Resolved(drawOut = "fail", "ok", "unfilled", ctx, <<>>)
    ELSE IF tag_type \in UnimplementedTypes THEN Resolved(FALSE, "todo", "unfilled", ctx, <<>>)
    ELSE LET g == GenerateTextForTag(tag, ctx, pd, ph, titleOut, mainOut)
         IN  Resolved(g.raised \/ drawOut = "fail", "ok", g.text, g.ctx, g.calls)

\* process_tag under the configuration in use.
ProcessTag(tag, ctx, pd, ph, titleOut, mainOut, drawOut) ==
    ProcessTagOfType(tag, TagType(tag), ctx, pd, ph, titleOut, mainOut, drawOut)

\* keyword1_text as a condition (lines 417, 432): neither None nor empty.
Truthy(text) == text \notin {"None", ""}

\* One pass of the dispatch loop's body (lines 415-458): a producer tag whose
\* text was computed gets that text inserted; everything else goes to process_tag.
ResolveOccurrence(tag, ctx, pd, k1, k2, titleOut, mainOut, drawOut) ==
    IF tag = "KEYWORD1_AREA" /\ Truthy(k1)
    THEN Resolved(drawOut = "fail", "ok", k1, ctx, <<>>)
    ELSE IF tag = "KEYWORD2_AREA" /\ Truthy(k2)
    THEN Resolved(drawOut = "fail", "ok", k2, ctx, <<>>)
    ELSE ProcessTag(tag, ctx, pd, "REMAINING_TAGS", titleOut, mainOut, drawOut)

\* except Exception around each occurrence (lines 429, 444, 457): report it and
\* go on with the next occurrence.
AbortOnException == "abort"
OnOccurrenceException == "continue"

\* The phase after the scan of a slide that has tags (lines 361-374).
SkipProducerPhase == "REMAINING_TAGS"
PhaseAfterScan == "PRODUCER_TAGS"

\* generate_report called without a weather analysis (MainSpec has the runs of
\* main, with and without one).
ReportInit ==
    /\ rpc = "run"
    /\ slideIdx = 0
    /\ weather_analysis = FALSE
    /\ earlierFailure = FALSE
    /\ SlideIdle
    /\ phrase_data \in ReportPhraseLists
    /\ insightTag = FALSE
    /\ pvars = NoVars
    /\ chartSel = NoChart
    /\ chartOut = NoChartOut
    /\ SubstIdle
    /\ FetchIdle
    /\ WeatherIdle
    /\ TagIdle
    /\ ConfigIdle
    /\ ExtIdle

\* for slide_idx, slide in enumerate(prs.slides): the next slide, if any, of a
\* document of MaxSlides slides.  slide_context keeps the earlier slide's
\* dictionary until the body assigns it again (line 368).
NextSlide ==
    /\ rpc = "run"
    /\ phase = "DONE"
    /\ slideIdx < MaxSlides
    /\ slideIdx' = slideIdx + 1
    /\ phase' = "SCAN"
    /\ tags' = <<>>
    /\ pos' = 1
    /\ keyword1_text' = "None"
    /\ keyword2_text' = "None"
    /\ calls' = <<>>
    /\ status' = <<>>
    /\ filled' = <<>>
    /\ trace' = <<"SCAN">>
    /\ earlierFailure' = (earlierFailure \/ \E i \in 1..Len(status) : status[i] = "failed")
    /\ UNCHANGED <<rpc, weather_analysis, slide_context, phraseVars, substVars, fetchVars, weatherVars, tagVars, configVars, extVars>>

\* slide_context = {} and the weather entry (lines 368-372).
CarriedContext(ctx, w) == [ctx EXCEPT !.weather_analysis = w]
FreshContext(ctx, w) == [NoContext EXCEPT !.weather_analysis = w]

\* find_tags_in_slide, and for a slide with tags the fresh slide context
\* (lines 359-372).
ScanSlide ==
    /\ rpc = "run"
    /\ phase = "SCAN"
    /\ \E layout \in SlideLayouts :
          /\ tags' = layout
          /\ status' = [i \in 1..Len(layout) |-> "pending"]
          /\ filled' = [i \in 1..Len(layout) |-> "unfilled"]
          /\ IF layout = <<>>
             THEN /\ phase' = "DONE"
                  /\ trace' = Append(trace, "DONE")
                  /\ UNCHANGED slide_context
             ELSE /\ phase' = PhaseAfterScan
                  /\ trace' = Append(trace, PhaseAfterScan)
                  /\ slide_context' = FreshContext(slide_context, weather_analysis)
    /\ UNCHANGED <<rpc, slideIdx, weather_analysis, earlierFailure, pos, keyword1_text,
                   keyword2_text, calls, phraseVars, substVars, fetchVars, weatherVars, tagVars, configVars, extVars>>

HasTag(tag) == \E i \in 1..Len(tags) : tags[i] = tag

\* slide_context['insight_title'] = keyword1_text and slide_context['insight_title2']
\* = keyword2_text stand inside the try, after the call (lines 388-389, 407-408):
\* they are reached only when the call returned.
StoredOutsideTry(ctx, returned, key, text) == [ctx EXCEPT ![key] = text]
StoredInTry(ctx, returned, key, text) == IF returned THEN [ctx EXCEPT ![key] = text] ELSE ctx

\* The producer tags (lines 374-412): KEYWORD1_AREA's text is generated and
\* stored as insight_title, then KEYWORD2_AREA's as insight_title2; a failure
\* is caught and leaves the text None.
ResolveProducerTags ==
    /\ rpc = "run"
    /\ phase = "PRODUCER_TAGS"
    /\ \E out1 \in BackendOutcomes, out2 \in BackendOutcomes :
          LET g1 == GenerateTextForTag("KEYWORD1_AREA", slide_context, phrase_data,
                                       "PRODUCER_TAGS", "ok", out1)
              run1 == HasTag("KEYWORD1_AREA")
              ok1 == run1 /\ ~g1.raised
              ctx1 == StoredInTry(slide_context, ok1, "insight_title", g1.text)
              g2 == GenerateTextForTag("KEYWORD2_AREA", ctx1, phrase_data,
                                       "PRODUCER_TAGS", "ok", out2)
              run2 == HasTag("KEYWORD2_AREA")
              ok2 == run2 /\ ~g2.raised
              ctx2 == StoredInTry(ctx1, ok2, "insight_title2", g2.text)
          IN  /\ keyword1_text' = IF ok1 THEN g1.text ELSE "None"
              /\ keyword2_text' = IF ok2 THEN g2.text ELSE "None"
              /\ slide_context' = ctx2
              /\ calls' = calls \o (IF run1 THEN g1.calls ELSE <<>>)
                                \o (IF run2 THEN g2.calls ELSE <<>>)
    /\ phase' = "REMAINING_TAGS"
    /\ trace' = Append(trace, "REMAINING_TAGS")
    /\ pos' = 1
    /\ UNCHANGED <<rpc, slideIdx, weather_analysis, earlierFailure, tags, status, filled,
                   phraseVars, substVars, fetchVars, weatherVars, tagVars, configVars, extVars>>

\* The outcomes an occurrence of the tag can meet: of the title call when one
\* is due, of the main call when process_tag generates a text, of the chart
\* rendering or the insertion when there is one.
Generates(tag) ==
    /\ tag \notin SkipTags
    /\ TagType(tag) \in {"text", "list"}
    /\ ~(tag = "KEYWORD1_AREA" /\ Truthy(keyword1_text))
    /\ ~(tag = "KEYWORD2_AREA" /\ Truthy(keyword2_text))
TitleOutcomesAt(tag) ==
    IF NeedsTitleCall(tag, slide_context, phrase_data) THEN TitleOutcomes ELSE {"ok"}
TextOutcomesAt(tag) == IF Generates(tag) THEN TextOutcomes ELSE {"ok"}
DrawOutcomesAt(tag) ==
    IF tag \in SkipTags \/ TagType(tag) \in UnimplementedTypes THEN {"ok"} ELSE DrawOutcomes

\* One occurrence of the dispatch loop (lines 415-458).
DispatchOccurrence ==
    /\ rpc = "run"
    /\ phase = "REMAINING_TAGS"
    /\ pos <= Len(tags)
    /\ \E titleOut \in TitleOutcomesAt(tags[pos]), mainOut \in TextOutcomesAt(tags[pos]),
          drawOut \in DrawOutcomesAt(tags[pos]) :
          LET r == ResolveOccurrence(tags[pos], slide_context, phrase_data, keyword1_text,
                                     keyword2_text, titleOut, mainOut, drawOut)
              stop == r.raised /\ OnOccurrenceException # "continue"
          IN  /\ slide_context' = r.ctx
              /\ calls' = calls \o r.calls
              /\ status' = [status EXCEPT ![pos] = r.status]
              /\ filled' = [filled EXCEPT ![pos] = r.filled]
              /\ rpc' = IF stop THEN "aborted" ELSE rpc
              /\ pos' = IF stop THEN pos ELSE pos + 1
              /\ phase' = IF ~stop /\ pos = Len(tags) THEN "DONE" ELSE phase
              /\ trace' = IF ~stop /\ pos = Len(tags) THEN Append(trace, "DONE") ELSE trace
    /\ UNCHANGED <<slideIdx, weather_analysis, earlierFailure, tags, keyword1_text, keyword2_text,
                   phraseVars, substVars, fetchVars, weatherVars, tagVars, configVars, extVars>>

\* prs.save(output_path) follows the loop with no condition on what the
\* occurrences reported (line 461).
SavedOnlyWithoutFailure(failure) == ~failure
SavedAfterLoop(failure) == TRUE

\* prs.save(output_path), after the last slide (line 461).
SaveReport ==
    /\ rpc = "run"
    /\ phase = "DONE"
    /\ slideIdx = MaxSlides
    /\ SavedAfterLoop(earlierFailure \/ \E i \in 1..Len(status) : status[i] = "failed")
    /\ rpc' = "saved"
    /\ UNCHANGED <<slideIdx, weather_analysis, earlierFailure, slideVars, phraseVars, substVars, fetchVars, weatherVars, tagVars, configVars, extVars>>

ReportNext ==
    \/ NextSlide
    \/ ScanSlide
    \/ ResolveProducerTags
    \/ DispatchOccurrence
    \/ SaveReport

ReportSpec == ReportInit /\ [][ReportNext]_vars

\* generate_report under a configuration that gives the producer tags another
\* type.
ConfiguredInit ==
    /\ rpc = "run"
    /\ slideIdx = 0
    /\ weather_analysis = FALSE
    /\ earlierFailure = FALSE
    /\ SlideIdle
    /\ phrase_data \in {pd \in ReportPhraseLists : HasInsightPhrases(pd)}
    /\ insightTag = FALSE
    /\ pvars = NoVars
    /\ chartSel = NoChart
    /\ chartOut = NoChartOut
    /\ producer_type \in {"text", "chart", "asset", "composite"}
    /\ SubstIdle
    /\ FetchIdle
    /\ WeatherIdle
    /\ TagIdle
    /\ ExtIdle

ConfiguredSpec == ConfiguredInit /\ [][ReportNext]_vars

(***************************************************************************)
(* One process_tag call, for any tag, any type its configuration can give  *)
(* it, and any slide context.                                              *)
(***************************************************************************)

TagNames == ReportTags \cup SkipTags

\* 'text', 'chart', 'list', 'asset', 'composite' (line 170), and any other value.
TagTypes == {"text", "list", "chart", "asset", "composite", "other"}

TagContexts ==
    [weather_analysis : BOOLEAN, insight_title : {"absent", "", "TITLE"},
     insight_title2 : {"absent"}]

TagInit ==
    /\ tpc = "call"
    /\ ttag \in TagNames
    /\ ttype \in TagTypes
    /\ tctx \in TagContexts
    /\ tresult = NoResult
    /\ phrase_data \in ReportPhraseLists
    /\ insightTag = FALSE
    /\ pvars = NoVars
    /\ chartSel = NoChart
    /\ chartOut = NoChartOut
    /\ SubstIdle
    /\ ReportIdle
    /\ FetchIdle
    /\ WeatherIdle
    /\ ConfigIdle
    /\ ExtIdle

ProcessTagCall ==
    /\ tpc = "call"
    /\ \E titleOut \in TitleOutcomes, mainOut \in BackendOutcomes, drawOut \in DrawOutcomes :
          tresult' = ProcessTagOfType(ttag, ttype, tctx, phrase_data, "REMAINING_TAGS",
                                      titleOut, mainOut, drawOut)
    /\ tpc' = "returned"
    /\ UNCHANGED <<ttag, ttype, tctx, substVars, phraseVars, reportVars, fetchVars, weatherVars,
                   configVars, extVars>>

TagNext == ProcessTagCall

TagSpec == TagInit /\ [][TagNext]_vars

(***************************************************************************)
(* WeatherDataAnalyzer.fetch_monthly_temp inside the collection loop of     *)
(* load_or_fetch_all_data.                                                 *)
(***************************************************************************)

max_retries == 3
MaxMonths == 2

\* What one requests.get followed by raise_for_status can do.
AttemptOutcomes == {"response", "http_error", "timeout", "connection_error", "other_error"}

\* except (Timeout, ConnectionError), line 51.
RetryAnyError(outcome) == outcome # "response"
IsRetryable(outcome) == outcome \in {"timeout", "connection_error"}

\* wait_time = (attempt + 1) * 2, line 53.
WaitTime(a) == (a + 1) * 2

\* A response text: its lines, each the tokens split() yields.  "1.5" stands
\* for a token float() accepts, "x" for one it rejects.
Columns == {<<>>, <<"TM">>, <<"TA_MAVG">>, <<"TM", "TA_MAVG">>}
HeaderLines == Columns \cup {<<"#">> \o c : c \in Columns}
Tokens == {"1.5", "x"}
ValueLines == UNION {[1..n -> Tokens] : n \in 0..2}
Responses == {<<h>> : h \in HeaderLines} \cup {<<h, v>> : h \in HeaderLines, v \in ValueLines}

NoResponse == [got |-> FALSE, text |-> <<>>]
Pending == [kind |-> "pending", columns |-> <<>>, row |-> <<>>]
ReturnNone == [kind |-> "None", columns |-> <<>>, row |-> <<>>]

Min(a, b) == IF a <= b THEN a ELSE b
HasColumn(cols, c) == \E i \in 1..Len(cols) : cols[i] = c
ValueOf(df, c) == df.row[CHOOSE i \in 1..Len(df.columns) : df.columns[i] = c]

\* The parse of lines 68-99: fewer than two lines give None; a leading # is
\* dropped from the header; header and values are cut to the shorter of the
\* two; TA_MAVG is converted to float, and a failure there gives None.
ParseResponse(r) ==
    IF ~r.got THEN ReturnNone
    ELSE IF Len(r.text) < 2 THEN ReturnNone
    ELSE LET line == r.text[1]
             header == IF line # <<>> /\ line[1] = "#" THEN Tail(line) ELSE line
             values == r.text[2]
             n == Min(Len(header), Len(values))
             h == SubSeq(header, 1, n)
             v == SubSeq(values, 1, n)
         IN  IF \E i \in 1..n : h[i] = "TA_MAVG" /\ v[i] = "x"
             THEN ReturnNone
             ELSE [kind |-> "table", columns |-> h, row |-> v]

FetchInit ==
    /\ fpc = "idle"
    /\ attempt = 0
    /\ res = NoResponse
    /\ fetched = Pending
    /\ attemptLog = <<>>
    /\ waits = <<>>
    /\ monthIdx = 0
    /\ numMonths \in 1..MaxMonths
    /\ results = <<>>
    /\ onlyConnErrors = TRUE
    /\ SubstIdle
    /\ PhraseIdle
    /\ ReportIdle
    /\ WeatherIdle
    /\ TagIdle
    /\ ConfigIdle
    /\ ExtIdle

\* df = self.fetch_monthly_temp(year, month), line 138: the call.
StartFetch ==
    /\ fpc = "idle"
    /\ monthIdx < numMonths
    /\ fpc' = "request"
    /\ attempt' = 0
    /\ res' = NoResponse
    /\ fetched' = Pending
    /\ attemptLog' = <<>>
    /\ waits' = <<>>
    /\ UNCHANGED <<onlyConnErrors, monthIdx, numMonths, results, substVars, phraseVars, reportVars,
                   weatherVars, tagVars, configVars, extVars>>

\* One pass of the retry loop (lines 46-62).
Request ==
    /\ fpc = "request"
    /\ attempt < max_retries
    /\ \E outcome \in AttemptOutcomes, text \in Responses :
          /\ attemptLog' = Append(attemptLog, outcome)
          /\ onlyConnErrors' = (onlyConnErrors /\ outcome = "connection_error")
          /\ IF outcome = "response"
             THEN /\ res' = [got |-> TRUE, text |-> text]
                  /\ fpc' = "parse"
                  /\ UNCHANGED <<attempt, waits, fetched>>
             ELSE IF IsRetryable(outcome) /\ attempt < max_retries - 1
             THEN /\ waits' = Append(waits, WaitTime(attempt))
                  /\ attempt' = attempt + 1
                  /\ UNCHANGED <<fpc, res, fetched>>
             ELSE /\ fetched' = ReturnNone
                  /\ fpc' = "returned"
                  /\ UNCHANGED <<attempt, waits, res>>
    /\ UNCHANGED <<monthIdx, numMonths, results, substVars, phraseVars, reportVars,
                   weatherVars, tagVars, configVars, extVars>>

\* After the loop (lines 64-99).
Parse ==
    /\ fpc = "parse"
    /\ fetched' = ParseResponse(res)
    /\ fpc' = "returned"
    /\ UNCHANGED <<onlyConnErrors, attempt, res, attemptLog, waits, monthIdx, numMonths, results,
                   substVars, phraseVars, reportVars,
                   weatherVars, tagVars, configVars, extVars>>

\* The rest of the collection loop's body (lines 139-147): a table with a
\* TA_MAVG column is kept, by its TM and TA_MAVG columns.
Collect ==
    /\ fpc = "returned"
    /\ IF fetched.kind = "table" /\ HasColumn(fetched.columns, "TA_MAVG")
       THEN IF HasColumn(fetched.columns, "TM")
            THEN /\ results' = Append(results, <<ValueOf(fetched, "TM"), ValueOf(fetched, "TA_MAVG")>>)
                 /\ monthIdx' = monthIdx + 1
                 /\ fpc' = "idle"
            ELSE /\ fpc' = "KeyError"
                 /\ UNCHANGED <<results, monthIdx>>
       ELSE /\ monthIdx' = monthIdx + 1
            /\ fpc' = "idle"
            /\ UNCHANGED results
    /\ UNCHANGED <<onlyConnErrors, attempt, res, fetched, attemptLog, waits, numMonths,
                   substVars, phraseVars, reportVars,
                   weatherVars, tagVars, configVars, extVars>>

\* After the last month (lines 149-154).
FinishCollection ==
    /\ fpc = "idle"
    /\ monthIdx = numMonths
    /\ fpc' = "done"
    /\ UNCHANGED <<onlyConnErrors, attempt, res, fetched, attemptLog, waits, monthIdx, numMonths, results,
                   substVars, phraseVars, reportVars,
                   weatherVars, tagVars, configVars, extVars>>

FetchNext ==
    \/ StartFetch
    \/ Request
    \/ Parse
    \/ Collect
    \/ FinishCollection

FetchSpec == FetchInit /\ [][FetchNext]_vars

\* The collection runs sequentially: a step that can be taken is taken
\* (requests.get has a timeout, the sleeps are finite).
FetchFairSpec == FetchSpec /\ WF_vars(FetchNext)

(***************************************************************************)
(* The weather analysis on its way into a prompt: analyze_temperature's    *)
(* result, main's handling of it, the slide context, build_prompt's        *)
(* weather variables and the substitution.  Temperatures are in tenths of  *)
(* a degree.                                                               *)
(***************************************************************************)

MaxDiff == 1

Diffs == (0 - MaxDiff)..MaxDiff

OptDiffs == {NoDiff} \cup {[has |-> TRUE, v |-> d] : d \in Diffs}

\* analyze_temperature, lines 205-210: no rows for the month.
ErrorResult == [data_available |-> "absent", error |-> TRUE, historical_avg |-> FALSE,
                numbers |-> FALSE, diff_from_avg |-> NoDiff, diff_from_normal |-> NoDiff]

\* analyze_temperature, lines 216-222: rows, but none for the current year.
NoCurrentResult == [data_available |-> "absent", error |-> TRUE, historical_avg |-> TRUE,
                    numbers |-> FALSE, diff_from_avg |-> NoDiff, diff_from_normal |-> NoDiff]

\* analyze_temperature, lines 224-265: both differences are taken from the
\* same mean (lines 227-235).
Available(d) == [data_available |-> "True", error |-> FALSE, historical_avg |-> TRUE,
                 numbers |-> TRUE,
                 diff_from_avg |-> [has |-> TRUE, v |-> d],
                 diff_from_normal |-> [has |-> TRUE, v |-> d]]

\* What get_weather_analysis can do once the collection has ended: with no
\* table kept the frame is empty (lines 145-146, 171-172, 205); with tables it
\* depends on their TM values, which may also fail to convert (line 181); an
\* exception of the collection propagates.
AnalysisOutcomes(collected, table) ==
    IF collected = "KeyError" THEN {[state |-> "raised", w |-> EmptyDict]}
    ELSE IF table = <<>> THEN {[state |-> "result", w |-> ErrorResult]}
    ELSE {[state |-> "raised", w |-> EmptyDict], [state |-> "result", w |-> ErrorResult],
          [state |-> "result", w |-> NoCurrentResult]}
         \cup {[state |-> "result", w |-> Available(d)] : d \in Diffs}

\* weather.get('data_available') as a condition.
DataAvailable(w) == w.data_available = "True"

\* main, lines 34-49: a result without data_available, and an exception, both
\* leave {} in weather_analysis.
KeepResult(a) == [state |-> "main", w |-> a.w]
MainWeather(a) ==
    IF a.state = "result" /\ DataAvailable(a.w)
    THEN [state |-> "main", w |-> a.w]
    ELSE [state |-> "main", w |-> EmptyDict]

\* generate_report, lines 370-372: if weather_analysis: the entry is set.
SlideWeather(a) ==
    IF a.w # EmptyDict THEN [present |-> TRUE, w |-> a.w] ELSE NoWeather

NumericVars == {"weather_current_temp", "weather_historical_avg", "weather_normal_avg",
                "weather_diff_from_avg", "weather_diff_from_normal",
                "weather_pct_diff_from_avg", "weather_pct_diff_from_normal",
                "weather_rank", "weather_total_years"}

NarrativeVars == {"weather_comparison", "weather_normal_comparison"}

WeatherVarNames == NumericVars \cup NarrativeVars

Unbound == [kind |-> "unbound", x |-> 0]
NotAvailable == [kind |-> "N/A", x |-> 0]
Number(x) == [kind |-> "number", x |-> x]
EmptyText == [kind |-> "empty", x |-> 0]

Abs(x) == IF x < 0 THEN 0 - x ELSE x

\* weather.get(key, 0) of a difference.
GetDiff(d) == IF d.has THEN d.v ELSE 0

\* Lines 85-90 and 92-97: the narrative of one difference.
NonStrictNarrative(d) ==
    IF GetDiff(d) >= 0 THEN [kind |-> "above", x |-> Abs(GetDiff(d))]
    ELSE [kind |-> "below", x |-> Abs(GetDiff(d))]
Narrative(d) ==
    IF GetDiff(d) > 0 THEN [kind |-> "above", x |-> Abs(d.v)]
    ELSE IF GetDiff(d) < 0 THEN [kind |-> "below", x |-> Abs(d.v)]
    ELSE [kind |-> "similar", x |-> 0]

\* Lines 75-83: one numeric variable of an available analysis; the number of a
\* key other than the differences is not modelled (1 stands for it).
NumericVar(n, w) ==
    IF n = "weather_diff_from_avg" THEN Number(GetDiff(w.diff_from_avg))
    ELSE IF n = "weather_diff_from_normal" THEN Number(GetDiff(w.diff_from_normal))
    ELSE IF n = "weather_historical_avg" /\ w.historical_avg THEN Number(1)
    ELSE IF n # "weather_historical_avg" /\ w.numbers THEN Number(1)
    ELSE IF n \in {"weather_pct_diff_from_avg", "weather_pct_diff_from_normal"} THEN Number(0)
    ELSE IF n = "weather_total_years" THEN Number(20)
    ELSE NotAvailable

\* build_prompt, lines 72-104: the weather entries of format_vars.
WeatherFormatVars(c) ==
    [n \in WeatherVarNames |->
        IF ~c.present THEN Unbound
        ELSE IF DataAvailable(c.w)
        THEN IF n = "weather_comparison" THEN Narrative(c.w.diff_from_avg)
             ELSE IF n = "weather_normal_comparison" THEN Narrative(c.w.diff_from_normal)
             ELSE NumericVar(n, c.w)
        ELSE IF n \in {"weather_current_temp", "weather_historical_avg"} THEN NotAvailable
        ELSE IF n \in NarrativeVars THEN EmptyText
        ELSE Unbound]

\* The value str.format sees for a bound weather variable: a number, or a
\* string (the sentinel, a narrative, the empty string).
FormatValue(v) ==
    IF v.kind = "number" THEN IntVal(<<"7">>)
    ELSE IF v.kind = "empty" THEN StrVal(<<>>)
    ELSE StrVal(<<v.kind>>)

\* format_vars as the formatter sees it: the month and the bound weather variables.
WeatherBinds(wv) ==
    [name \in {<<"m">>} \cup {<<n>> : n \in {k \in WeatherVarNames : wv[k].kind # "unbound"}} |->
        IF name = <<"m">> THEN MonthValue ELSE FormatValue(wv[name[1]])]

\* Templates that reference one weather variable, bare or with a numeric format.
WeatherTemplates ==
    {<<"{", n, "}">> : n \in WeatherVarNames} \cup
    {<<"{", n, ":", "d", "}">> : n \in WeatherVarNames}

\* The variable a weather template references.
Referenced(t) == t[2]

\* The contexts build_prompt can be handed: no weather entry, or any dictionary.
WeatherDicts ==
    [data_available : {"absent", "False", "True"}, error : BOOLEAN,
     historical_avg : BOOLEAN, numbers : BOOLEAN,
     diff_from_avg : OptDiffs, diff_from_normal : OptDiffs]

WeatherContexts == {NoWeather} \cup {[present |-> TRUE, w |-> w] : w \in WeatherDicts}

WeatherVarsInit ==
    /\ wpc = "context"
    /\ wanalysis = Unset
    /\ wcontext \in WeatherContexts
    /\ wvars = <<>>
    /\ wtemplate \in WeatherTemplates
    /\ wprompt = NoPrompt
    /\ SubstIdle
    /\ PhraseIdle
    /\ ReportIdle
    /\ FetchIdle
    /\ TagIdle
    /\ ConfigIdle
    /\ ExtIdle

\* build_prompt up to line 104.
BuildWeatherVars ==
    /\ wpc = "context"
    /\ wvars' = WeatherFormatVars(wcontext)
    /\ wpc' = "vars"
    /\ UNCHANGED <<wanalysis, wcontext, wtemplate, wprompt,
                   substVars, phraseVars, reportVars, fetchVars, tagVars, configVars, extVars>>

\* build_prompt, lines 228-245.
SubstituteWeather ==
    /\ wpc = "vars"
    /\ wprompt' = Substitute(wtemplate, WeatherBinds(wvars))
    /\ wpc' = "prompt"
    /\ UNCHANGED <<wanalysis, wcontext, wvars, wtemplate,
                   substVars, phraseVars, reportVars, fetchVars, tagVars, configVars, extVars>>

WeatherVarsNext == BuildWeatherVars \/ SubstituteWeather

WeatherVarsSpec == WeatherVarsInit /\ [][WeatherVarsNext]_vars

\* The run from the collection to the prompt of a weather-referencing tag.
AnalyzeTemperature ==
    /\ wpc = "fetch"
    /\ fpc \in {"done", "KeyError"}
    /\ \E a \in AnalysisOutcomes(fpc, results) : wanalysis' = a
    /\ wpc' = "analysed"
    /\ UNCHANGED <<wcontext, wvars, wtemplate, wprompt,
                   substVars, phraseVars, reportVars, fetchVars, tagVars, configVars, extVars>>

MainHandleWeather ==
    /\ wpc = "analysed"
    /\ wanalysis' = MainWeather(wanalysis)
    /\ wpc' = "main"
    /\ UNCHANGED <<wcontext, wvars, wtemplate, wprompt,
                   substVars, phraseVars, reportVars, fetchVars, tagVars, configVars, extVars>>

\* The slide context of a slide with a tag whose template references a
\* weather variable.
BuildSlideContext ==
    /\ wpc = "main"
    /\ wcontext' = SlideWeather(wanalysis)
    /\ \E t \in WeatherTemplates : wtemplate' = t
    /\ wpc' = "context"
    /\ UNCHANGED <<wanalysis, wvars, wprompt,
                   substVars, phraseVars, reportVars, fetchVars, tagVars, configVars, extVars>>

WeatherRunNext ==
    \/ FetchNext
    \/ AnalyzeTemperature
    \/ MainHandleWeather
    \/ BuildSlideContext
    \/ BuildWeatherVars
    \/ SubstituteWeather

WeatherRunSpec == FetchInit /\ [][WeatherRunNext]_vars

\* main from the weather analysis on (main.py, lines 32-61): what
\* get_weather_analysis did, main's handling of it, then generate_report.
RunOutcomes ==
    {[state |-> "raised", w |-> EmptyDict], [state |-> "result", w |-> ErrorResult],
     [state |-> "result", w |-> NoCurrentResult], [state |-> "result", w |-> Available(0)]}

MainInit ==
    /\ rpc = "main"
    /\ slideIdx = 0
    /\ weather_analysis = FALSE
    /\ earlierFailure = FALSE
    /\ SlideIdle
    /\ phrase_data \in {pd \in ReportPhraseLists : HasInsightPhrases(pd)}
    /\ insightTag = FALSE
    /\ pvars = NoVars
    /\ chartSel = NoChart
    /\ chartOut = NoChartOut
    /\ SubstIdle
    /\ FetchIdle
    /\ WeatherIdle
    /\ TagIdle
    /\ ConfigIdle
    /\ ExtIdle

\* What main reports about the analysis: available (lines 41-43), or failed
\* (no true data_available, lines 44-45; an exception, lines 47-48).
Reported(a) == IF a.state = "result" /\ DataAvailable(a.w) THEN "available" ELSE "failed"

\* Lines 34-49: wanalysis is main's weather_analysis after them (with what main
\* reported), weather_analysis is generate_report's argument (non-empty or not).
GetWeatherAnalysis ==
    /\ rpc = "main"
    /\ \E a \in RunOutcomes :
          /\ wanalysis' = [state |-> Reported(a), w |-> MainWeather(a).w]
          /\ weather_analysis' = (MainWeather(a).w # EmptyDict)
    /\ rpc' = "run"
    /\ UNCHANGED <<slideIdx, earlierFailure, slideVars, wpc, wcontext, wvars, wtemplate, wprompt,
                   phraseVars, substVars, fetchVars, tagVars, configVars, extVars>>

MainNext == GetWeatherAnalysis \/ ReportNext

MainSpec == MainInit /\ [][MainNext]_vars

\* main runs to its end: no step waits for anything.
MainFairSpec == MainSpec /\ WF_vars(MainNext)

(***************************************************************************)
(* build_prompt's format_vars: the source each variable is bound from, by  *)
(* the order in which build_prompt writes it.                              *)
(***************************************************************************)

MaxContextKeys == 3

\* Lines 58-62.
BaseKeys == {"month", "phrase_data", "current_year"}
\* Lines 122, 130, 154-159, 183-188.
SummaryKeys == {"phrase_info_text", "phrase_info_text_ctr"}
TopGroupKeys == {"chart1_top_groups", "ctr_top_groups"} \cup SummaryKeys
\* Lines 219-220.
InsightListKeys == {"exposure_phrases", "ctr_phrases"}
\* Lines 101-104.
SentinelKeys == {"weather_current_temp", "weather_historical_avg"} \cup NarrativeVars

\* The names a slide context can hold: the entries generate_report writes and
\* every name build_prompt binds itself.
OverlayKeys ==
    BaseKeys \cup TopGroupKeys \cup InsightListKeys \cup WeatherVarNames
    \cup {"weather_analysis", "insight_title", "insight_title2"}

\* format_vars[k] = ... for every k of keys.
Bind(fv, keys, src) == [k \in DOMAIN fv |-> IF k \in keys THEN src ELSE fv[k]]

BaseVars == [k \in OverlayKeys |-> IF k \in BaseKeys THEN "base" ELSE "unbound"]

\* if context: format_vars.update(context) (lines 65-69).
WithContext(fv, ctx) == Bind(fv, ctx, "context")

\* if 'weather_analysis' in context: the weather variables (lines 72-104).
WithWeather(fv, ctx, avail) ==
    IF "weather_analysis" \notin ctx THEN fv
    ELSE Bind(fv, IF avail THEN WeatherVarNames ELSE SentinelKeys, "weather")

\* if phrase_data: the top groups and the summary blocks (lines 107-188).
WithPhrases(fv, pd) == IF pd = <<>> THEN fv ELSE Bind(fv, TopGroupKeys, "phrases")

\* if 'phrase_info_text' not in format_vars (lines 191-194).
WithSummaryDefaults(fv) == Bind(fv, {k \in SummaryKeys : fv[k] = "unbound"}, "default")

\* The ranked names for an insight tag, when a record is left after the noise
\* filter (lines 197-220).
WithInsightLists(fv, pd, insight) ==
    IF insight /\ FilterNoise(pd) # <<>> THEN Bind(fv, InsightListKeys, "phrases") ELSE fv

\* if 'insight_title' not in format_vars (lines 223-226).
WithTitleDefault(fv) == Bind(fv, {k \in {"insight_title"} : fv[k] = "unbound"}, "default")

FormatVarSources(ctx, avail, pd, insight) ==
    WithTitleDefault(
      WithInsightLists(
        WithSummaryDefaults(
          WithPhrases(WithWeather(WithContext(BaseVars, ctx), ctx, avail), pd)),
        pd, insight))

OverlayContexts == {c \in SUBSET OverlayKeys : Cardinality(c) <= MaxContextKeys}

OverlayInit ==
    /\ \E c \in OverlayContexts, a \in BOOLEAN :
          /\ a => "weather_analysis" \in c
          /\ overlay = [pc |-> "call", ctx |-> c, avail |-> a,
                        vars |-> [k \in OverlayKeys |-> "unbound"]]
    /\ phrase_data \in ReportPhraseLists
    /\ insightTag \in BOOLEAN
    /\ pvars = NoVars
    /\ chartSel = NoChart
    /\ chartOut = NoChartOut
    /\ SubstIdle
    /\ ReportIdle
    /\ FetchIdle
    /\ WeatherIdle
    /\ TagIdle
    /\ ConfigIdle
    /\ GenIdle /\ LabelIdle /\ ChartRunIdle /\ CacheIdle

\* build_prompt, up to the substitution.
BuildFormatVars ==
    /\ overlay.pc = "call"
    /\ overlay' = [overlay EXCEPT
                      !.pc = "built",
                      !.vars = FormatVarSources(overlay.ctx, overlay.avail, phrase_data,
                                                insightTag)]
    /\ UNCHANGED <<gen, label, chartRun, cache, substVars, phraseVars, reportVars, fetchVars,
                   weatherVars, tagVars, configVars>>

OverlayNext == BuildFormatVars

OverlaySpec == OverlayInit /\ [][OverlayNext]_vars

(***************************************************************************)
(* generate_text_for_tag: the prompts it sends and the text it returns.    *)
(* A prompt is the sequence of its parts.                                  *)
(***************************************************************************)

MaxLimit == 2
MaxReply == 2

\* The keys lines 333-340 look for, in that order, and any other key.
LinesFirstOrder == <<"lines", "lines_max", "chars_max", "chars_approx">>
GuidelineOrder == <<"chars_max", "chars_approx", "lines", "lines_max">>
GuidelineKeys == {GuidelineOrder[i] : i \in 1..Len(GuidelineOrder)} \cup {"other"}

\* config.get('length_guideline', {}): the key is missing, or maps some keys
\* to a limit.
NoGuideline == [present |-> FALSE, limits |-> <<>>]
Guidelines ==
    {NoGuideline} \cup
    {[present |-> TRUE, limits |-> f] :
        f \in UNION {[S -> 1..MaxLimit] : S \in SUBSET GuidelineKeys}}

Part(kind) == [kind |-> kind, limits |-> <<>>]

\* guideline_text (lines 332-340): one entry per configured key, in the order
\* of the four tests.
RECURSIVE GuidelineText(_, _)
GuidelineText(limits, order) ==
    IF order = <<>> THEN <<>>
    ELSE (IF Head(order) \in DOMAIN limits
          THEN <<<<Head(order), limits[Head(order)]>>>> ELSE <<>>)
         \o GuidelineText(limits, Tail(order))

\* Lines 330-342: the clause, when the guideline is non-empty and names a limit.
LengthClause(g) ==
    IF DOMAIN g.limits = {} \/ GuidelineText(g.limits, GuidelineOrder) = <<>> THEN <<>>
    ELSE <<[kind |-> "length", limits |-> GuidelineText(g.limits, GuidelineOrder)]>>

\* Lines 327-345: the substituted template, the clause, the language directive.
MainPrompt(g) == <<Part("template")>> \o LengthClause(g) \o <<Part("language")>>

\* Lines 285-308: the title prompt, sent as it is (lines 311-314).
TitlePrompt == <<Part("title_request")>>

PromptOf(call, g) ==
    [kind |-> call.kind, parts |-> IF call.kind = "title" THEN TitlePrompt ELSE MainPrompt(g)]

\* A response text: letters and blanks (no markup).
RECURSIVE TextsOfLen(_)
TextsOfLen(n) ==
    IF n = 0 THEN {<<>>}
    ELSE {<<c>> \o t : c \in {"a", " "}, t \in TextsOfLen(n - 1)}
Replies == UNION {TextsOfLen(n) : n \in 0..MaxReply}

\* str.strip().
Strip(s) ==
    LET ink == {i \in 1..Len(s) : s[i] # " "}
    IN  IF ink = {} THEN <<>>
        ELSE SubSeq(s, CHOOSE i \in ink : \A j \in ink : i <= j,
                       CHOOSE i \in ink : \A j \in ink : j <= i)

\* response.text.strip(), then clean_markdown (lines 355-360, 13-31): on a text
\* without markup clean_markdown only strips again.
ReturnedText(reply, g) == Strip(Strip(reply))

GenTags == {"DESCRIPTION1_AREA", "INSIGHT1_AREA"}
GenContexts == {NoContext, [NoContext EXCEPT !.insight_title = "TITLE"]}

GenInit ==
    /\ \E tag \in GenTags, g \in Guidelines, ctx \in GenContexts :
          gen = [pc |-> "call", tag |-> tag, guideline |-> g, ctx |-> ctx, sent |-> <<>>,
                 raised |-> FALSE, reply |-> <<>>, text |-> <<>>]
    /\ phrase_data \in ReportPhraseLists
    /\ insightTag = FALSE
    /\ pvars = NoVars
    /\ chartSel = NoChart
    /\ chartOut = NoChartOut
    /\ SubstIdle
    /\ ReportIdle
    /\ FetchIdle
    /\ WeatherIdle
    /\ TagIdle
    /\ ConfigIdle
    /\ OverlayIdle /\ LabelIdle /\ ChartRunIdle /\ CacheIdle

\* One generate_text_for_tag call.
GenerateText ==
    /\ gen.pc = "call"
    /\ \E titleOut \in (IF NeedsTitleCall(gen.tag, gen.ctx, phrase_data)
                        THEN TitleOutcomes ELSE {"ok"}),
          mainOut \in TextOutcomes, reply \in Replies :
          LET g == GenerateTextForTag(gen.tag, gen.ctx, phrase_data, "REMAINING_TAGS",
                                      titleOut, mainOut)
          IN  /\ g.raised => reply = <<>>
              /\ gen' = [gen EXCEPT
                            !.pc = "returned",
                            !.ctx = g.ctx,
                            !.sent = [i \in 1..Len(g.calls) |->
                                         PromptOf(g.calls[i], gen.guideline)],
                            !.raised = g.raised,
                            !.reply = reply,
                            !.text = IF g.raised THEN <<>>
                                     ELSE ReturnedText(reply, gen.guideline)]
    /\ UNCHANGED <<overlay, label, chartRun, cache, substVars, phraseVars, reportVars, fetchVars,
                   weatherVars, tagVars, configVars>>

GenNext == GenerateText

GenSpec == GenInit /\ [][GenNext]_vars

(***************************************************************************)
(* The label of one bubble: the phrase, wrapped, and the value under it.   *)
(***************************************************************************)

MaxLabelLen == 22
MaxSeparators == 2

\* len(phrase) > 15 and len(phrase) > 20.
WrapThreshold == 15
MidpointThreshold == 20

Separator == "·"

\* The phrases of a length: letters, with the separator at up to
\* MaxSeparators places.
PhrasesOfLen(n) ==
    {[i \in 1..n |-> IF i \in at THEN Separator ELSE "a"] :
        at \in {S \in SUBSET (1..n) : Cardinality(S) <= MaxSeparators}}
LabelPhrases == UNION {PhrasesOfLen(n) : n \in 0..MaxLabelLen}

HasSeparator(p) == \E i \in 1..Len(p) : p[i] = Separator
FirstSeparator(p) ==
    CHOOSE i \in 1..Len(p) : p[i] = Separator /\ \A j \in 1..(i - 1) : p[j] # Separator

\* phrase.split('·', 1), rejoined with the line break before the separator.
SplitAtSeparator(p) ==
    <<SubSeq(p, 1, FirstSeparator(p) - 1),
      <<Separator>> \o SubSeq(p, FirstSeparator(p) + 1, Len(p))>>

\* phrase[:mid] + '\n' + phrase[mid:] with mid = len(phrase) // 2.
SplitAtMidpoint(p) == <<SubSeq(p, 1, Len(p) \div 2), SubSeq(p, Len(p) \div 2 + 1, Len(p))>>

\* Lines 286-293: the lines the phrase is written on.
WrapPhrase(p) ==
    IF Len(p) > WrapThreshold
    THEN IF HasSeparator(p) THEN SplitAtSeparator(p)
         ELSE IF Len(p) > MidpointThreshold THEN SplitAtMidpoint(p)
         ELSE <<p>>
    ELSE <<p>>

\* label_text = f"{phrase}\n{value_text}" (lines 295-301).
LabelText(p) == WrapPhrase(p) \o <<<<"value">>>>

LabelInit ==
    /\ \E p \in LabelPhrases : label = [pc |-> "phrase", phrase |-> p, lines |-> <<>>]
    /\ SubstIdle
    /\ PhraseIdle
    /\ ReportIdle
    /\ FetchIdle
    /\ WeatherIdle
    /\ TagIdle
    /\ ConfigIdle
    /\ OverlayIdle /\ GenIdle /\ ChartRunIdle /\ CacheIdle

\* The label of one bubble of the drawing loop.
DrawLabel ==
    /\ label.pc = "phrase"
    /\ label' = [label EXCEPT !.pc = "drawn", !.lines = LabelText(label.phrase)]
    /\ UNCHANGED <<overlay, gen, chartRun, cache, substVars, phraseVars, reportVars, fetchVars,
                   weatherVars, tagVars, configVars>>

LabelNext == DrawLabel

LabelSpec == LabelInit /\ [][LabelNext]_vars

(***************************************************************************)
(* The chart occurrences of one slide: find_tags_in_slide's two channels,  *)
(* process_tag's chart branch, create_chart_for_tag, the marker lookup and *)
(* removal, the drawing, and generate_report's handler and save.           *)
(***************************************************************************)

MaxShapes == 2

ChartTag == "CHART1_AREA"
TextTag == "DESCRIPTION1_AREA"

\* The shapes of the template slide: a shape that carries {{CHART1_AREA}} in
\* its name, in its text or in both, or a shape with {{DESCRIPTION1_AREA}} in
\* its text.
Marker(inName, inText) ==
    [tag |-> ChartTag, inName |-> inName, inText |-> inText, present |-> TRUE]
TextShape == [tag |-> TextTag, inName |-> FALSE, inText |-> TRUE, present |-> TRUE]
ShapeKinds == {Marker(TRUE, FALSE), Marker(FALSE, TRUE), Marker(TRUE, TRUE), TextShape}
ShapeLists == UNION {[1..n -> ShapeKinds] : n \in 0..MaxShapes}

\* config.get('chart_kind') or config.get('chart_type', 'bubble').
ChartKinds == {"bubble", "pie"}
AnyKind(kind) == TRUE
KindRecognised(kind) == kind = "bubble"

\* find_tags_in_slide (lines 46-73): per shape, the tags of its name, then the
\* tags of its text.
RECURSIVE FindTagsFrom(_, _)
FindTagsFrom(shapes, i) ==
    IF i > Len(shapes) THEN <<>>
    ELSE (IF shapes[i].inName
          THEN <<[tag |-> shapes[i].tag, shape |-> i, type |-> "name"]>> ELSE <<>>)
         \o (IF shapes[i].inText
             THEN <<[tag |-> shapes[i].tag, shape |-> i, type |-> "text"]>> ELSE <<>>)
         \o FindTagsFrom(shapes, i + 1)
FindTagsInSlide(shapes) == FindTagsFrom(shapes, 1)

\* find_chart_area_marker (lines 122-133): the first shape still on the slide
\* whose text or name holds the marker text; 0 for None.
FindChartAreaMarker(shapes) ==
    LET found == {i \in 1..Len(shapes) : shapes[i].present /\ shapes[i].tag = ChartTag}
    IN  IF found = {} THEN 0 ELSE CHOOSE i \in found : \A j \in found : i <= j

\* create_chart_for_tag and insert_bubble_chart_shape_to_slide for one
\* occurrence: the chart kind (lines 369, 393-394), the selection (160-165),
\* the chart area (168-181), the marker's removal (186-188), the bubbles.
\* A set of bubbles is recorded with the occurrence it was drawn for and the
\* shape whose box it was placed in (0: the default position).
CreateChartForTag(cr, occ, pd) ==
    LET sel == ChartSelection(pd, "total_impressions", 10)
        m == FindChartAreaMarker(cr.shapes)
    IN  IF ~KindRecognised(cr.kind) THEN [cr EXCEPT !.status[occ] = "failed"]
        ELSE IF sel.kind = "KeyError" THEN [cr EXCEPT !.status[occ] = "failed"]
        ELSE IF sel.rows = <<>> THEN [cr EXCEPT !.status[occ] = "ok"]
        ELSE [cr EXCEPT !.status[occ] = "ok",
                        !.shapes = IF m = 0 THEN @ ELSE [@ EXCEPT ![m].present = FALSE],
                        !.removed = IF m = 0 THEN @ ELSE Append(@, m),
                        !.drawn = Append(@, [occ |-> occ, at |-> m])]

NoChartRun == [pc |-> "scan", kind |-> "bubble", shapes |-> <<>>, tags |-> <<>>, pos |-> 1,
               status |-> <<>>, removed |-> <<>>, drawn |-> <<>>]

ChartRunInit ==
    /\ \E shapes \in ShapeLists, kind \in ChartKinds :
          chartRun = [NoChartRun EXCEPT !.kind = kind, !.shapes = shapes]
    /\ phrase_data \in ReportPhraseLists
    /\ insightTag = FALSE
    /\ pvars = NoVars
    /\ chartSel = NoChart
    /\ chartOut = NoChartOut
    /\ SubstIdle
    /\ ReportIdle
    /\ FetchIdle
    /\ WeatherIdle
    /\ TagIdle
    /\ ConfigIdle
    /\ OverlayIdle /\ GenIdle /\ LabelIdle /\ CacheIdle

\* tags = find_tags_in_slide(slide) (report_generation.py, line 359).
FindTags ==
    /\ chartRun.pc = "scan"
    /\ LET found == FindTagsInSlide(chartRun.shapes)
       IN  chartRun' = [chartRun EXCEPT
                           !.pc = "dispatch",
                           !.tags = found,
                           !.status = [i \in 1..Len(found) |-> "pending"]]
    /\ UNCHANGED <<overlay, gen, label, cache, substVars, phraseVars, reportVars, fetchVars,
                   weatherVars, tagVars, configVars>>

\* One occurrence of the dispatch loop (lines 446-458): process_tag, and the
\* handler around it.
ProcessOccurrence ==
    /\ chartRun.pc = "dispatch"
    /\ chartRun.pos <= Len(chartRun.tags)
    /\ \E textOut \in TextOutcomes :
          LET occ == chartRun.pos
              r == IF chartRun.tags[occ].tag = ChartTag
                   THEN CreateChartForTag(chartRun, occ, phrase_data)
                   ELSE [chartRun EXCEPT
                            !.status[occ] = IF textOut = "fail" THEN "failed" ELSE "ok"]
              stop == r.status[occ] = "failed" /\ OnOccurrenceException # "continue"
          IN  chartRun' = [r EXCEPT !.pos = IF stop THEN @ ELSE @ + 1,
                                    !.pc = IF stop THEN "aborted" ELSE @]
    /\ UNCHANGED <<overlay, gen, label, cache, substVars, phraseVars, reportVars, fetchVars,
                   weatherVars, tagVars, configVars>>

\* prs.save(output_path) (line 461).
SaveDocument ==
    /\ chartRun.pc = "dispatch"
    /\ chartRun.pos > Len(chartRun.tags)
    /\ chartRun' = [chartRun EXCEPT !.pc = "saved"]
    /\ UNCHANGED <<overlay, gen, label, cache, substVars, phraseVars, reportVars, fetchVars,
                   weatherVars, tagVars, configVars>>

ChartRunNext == FindTags \/ ProcessOccurrence \/ SaveDocument

ChartRunSpec == ChartRunInit /\ [][ChartRunNext]_vars

(***************************************************************************)
(* load_or_fetch_all_data over the runs of the program: the cache file     *)
(* stays on disk from one run to the next.                                 *)
(***************************************************************************)

MaxRuns == 2

\* The file weather_data_stn108.csv: missing, or holding the months a run
\* collected (of |-> the months that run asked for); readable |-> read_csv
\* accepts it.
NoFile == [exists |-> FALSE, readable |-> FALSE, months |-> 0, of |-> 0]
FullFile(n) == [exists |-> TRUE, readable |-> TRUE, months |-> n, of |-> n]
BrokenFile == [exists |-> TRUE, readable |-> FALSE, months |-> 0, of |-> 0]

\* if not results: return ... (lines 149-150), else to_csv (lines 152-155).
WrittenFile(file, collected, asked) ==
    IF collected = 0 THEN file
    ELSE [exists |-> TRUE, readable |-> TRUE, months |-> collected, of |-> asked]

CacheInit ==
    /\ fpc = "idle"
    /\ attempt = 0
    /\ res = NoResponse
    /\ fetched = Pending
    /\ attemptLog = <<>>
    /\ waits = <<>>
    /\ monthIdx = 0
    /\ numMonths \in 1..MaxMonths
    /\ results = <<>>
    /\ onlyConnErrors = TRUE
    /\ SubstIdle
    /\ PhraseIdle
    /\ ReportIdle
    /\ WeatherIdle
    /\ TagIdle
    /\ ConfigIdle
    /\ OverlayIdle /\ GenIdle /\ LabelIdle /\ ChartRunIdle
    /\ \E file \in {NoFile, FullFile(numMonths), BrokenFile}, force \in BOOLEAN :
          cache = [pc |-> "load", run |-> 1, force |-> force, file |-> file,
                   existed |-> file.exists, reads |-> 0, writes |-> 0, returned |-> "pending"]

\* Lines 111-118: the file is read when it exists and no refresh is forced;
\* when the read fails the data is fetched.
LoadCache ==
    /\ cache.pc = "load"
    /\ IF cache.file.exists /\ ~cache.force
       THEN IF cache.file.readable
            THEN cache' = [cache EXCEPT !.pc = "returned", !.reads = @ + 1,
                                        !.returned = "cache"]
            ELSE cache' = [cache EXCEPT !.pc = "fetch", !.reads = @ + 1]
       ELSE cache' = [cache EXCEPT !.pc = "fetch"]
    /\ UNCHANGED <<overlay, gen, label, chartRun, fetchVars, substVars, phraseVars, reportVars,
                   weatherVars, tagVars, configVars>>

\* Lines 120-147: the collection loop.
FetchAll == cache.pc = "fetch" /\ FetchNext

\* Lines 149-157, after the loop: nothing collected, or the file is written.
StoreCache ==
    /\ cache.pc = "fetch"
    /\ fpc = "done"
    /\ cache' = [cache EXCEPT
                    !.pc = "returned",
                    !.file = WrittenFile(cache.file, Len(results), numMonths),
                    !.writes = IF Len(results) = 0 THEN @ ELSE @ + 1,
                    !.returned = IF Len(results) = 0 THEN "empty" ELSE "fetched"]
    /\ UNCHANGED <<overlay, gen, label, chartRun, fetchVars, substVars, phraseVars, reportVars,
                   weatherVars, tagVars, configVars>>

\* The program is started again: same months, the file as the last run left it.
NextRun ==
    /\ cache.pc = "returned" \/ fpc = "KeyError"
    /\ cache.run < MaxRuns
    /\ \E force \in BOOLEAN :
          cache' = [cache EXCEPT !.pc = "load", !.run = @ + 1, !.force = force,
                                 !.existed = cache.file.exists,
                                 !.reads = 0, !.writes = 0, !.returned = "pending"]
    /\ fpc' = "idle"
    /\ attempt' = 0
    /\ res' = NoResponse
    /\ fetched' = Pending
    /\ attemptLog' = <<>>
    /\ waits' = <<>>
    /\ monthIdx' = 0
    /\ results' = <<>>
    /\ onlyConnErrors' = TRUE
    /\ UNCHANGED <<numMonths, overlay, gen, label, chartRun, substVars, phraseVars, reportVars,
                   weatherVars, tagVars, configVars>>

CacheNext == LoadCache \/ FetchAll \/ StoreCache \/ NextRun

CacheSpec == CacheInit /\ [][CacheNext]_vars

(***************************************************************************)
(* Claims about the substitution (checked under SubstSpec).                *)
(***************************************************************************)

Letters == {"a", "m", "d"}
Names == UNION {[1..n -> Letters] : n \in 1..(MaxTemplateLen + 2)}

\* A variable set that binds every name: month as it is, every other name to a
\* value of type ty.
TotalVars(ty) ==
    [n \in Names |->
        IF n = <<"m">> THEN MonthValue
        ELSE IF ty = "int" THEN CtxValue ELSE StrVal(<<"T">>)]

\* The template is one that substitutes without error once its names are
\* bound: whatever goes wrong with it can only come from a missing binding.
OnlyDefectIsUnbound(t) ==
    \E ty \in {"str", "int"} : StrFormat(t, TotalVars(ty)).kind = "ok"

RECURSIVE UnboundFieldNames(_, _, _)
\* The names of the replacement fields of t (from i on) that fv does not bind.
UnboundFieldNames(t, i, fv) ==
    IF i > Len(t) THEN {}
    ELSE IF t[i] \notin {"{", "}"} THEN UnboundFieldNames(t, i + 1, fv)
    ELSE IF i < Len(t) /\ t[i + 1] = t[i] THEN UnboundFieldNames(t, i + 2, fv)
    ELSE IF t[i] = "}" \/ i = Len(t) THEN {}
    ELSE
        LET j == NameEnd(t, i + 1)
            k == IF j = 0 THEN 0 ELSE IF t[j] = ":" THEN SpecEnd(t, j + 1, 1) ELSE j
        IN  IF j = 0 \/ k = 0 THEN {}
            ELSE (IF SubSeq(t, i + 1, j - 1) \in DOMAIN fv THEN {} ELSE {SubSeq(t, i + 1, j - 1)})
                 \cup UnboundFieldNames(t, k + 1, fv)

Contains(s, part) ==
    \E i \in 0..(Len(s) - Len(part)) : SubSeq(s, i + 1, i + Len(part)) = part

\* C6: build_prompt never raises because of a placeholder that has no bound
\* variable: for every template whose only possible defect is a missing binding,
\* the substitution returns, and each unbound placeholder is in the output as the
\* literal text {name}.
C6_NeverRaisesOnUnbound ==
    (spc = "built" /\ OnlyDefectIsUnbound(template)) =>
        /\ prompt.kind = "ok"
        /\ \A n \in UnboundFieldNames(template, 1, FormatVars(ctxBinds)) :
              Contains(prompt.text, <<"{">> \o n \o <<"}">>)

RECURSIVE PlaceholderFree(_, _)
\* No replacement field starts in t from i on: every "{" is part of a "{{"
\* escape (or is the last character).
PlaceholderFree(t, i) ==
    IF i > Len(t) THEN TRUE
    ELSE IF t[i] = "{" THEN
        (IF i = Len(t) THEN TRUE
         ELSE IF t[i + 1] = "{" THEN PlaceholderFree(t, i + 2)
         ELSE FALSE)
    ELSE IF t[i] = "}" /\ i < Len(t) /\ t[i + 1] = "}" THEN PlaceholderFree(t, i + 2)
    ELSE PlaceholderFree(t, i + 1)

BraceFree(t) == \A i \in 1..Len(t) : t[i] \notin {"{", "}"}

\* C7 as stated: on every template without placeholders, build_prompt returns the
\* template unchanged, and substituting again returns the same string.
C7_IdempotentPlaceholderFree ==
    (spc \in {"built", "again"} /\ PlaceholderFree(template, 1)) =>
        /\ prompt = Ok(template)
        /\ spc = "again" => prompt2 = prompt

\* C7 (amended): on every template without brace characters, build_prompt returns
\* the template unchanged, and substituting again returns the same string.
C7_IdempotentBraceFree ==
    (spc \in {"built", "again"} /\ BraceFree(template)) =>
        /\ prompt = Ok(template)
        /\ spc = "again" => prompt2 = prompt

C7_Witness == spc = "again" /\ BraceFree(template) /\ Len(template) >= 2

(***************************************************************************)
(* Claims about the phrase context (checked under PhraseSpec).             *)
(***************************************************************************)

InSeq(x, s) == \E i \in 1..Len(s) : s[i] = x

\* C8: the noise phrase is in no ranked output: not in the two top-by-
\* impressions lists, not in the two top-by-CTR lists, not in a line of either
\* summary block, and not among the records the bubble chart selected.
C8_NoiseNeverRanked ==
    /\ pvars.built =>
          /\ ~InSeq(NoisePhrase, pvars.v.chart1_top_groups.value)
          /\ ~InSeq(NoisePhrase, pvars.v.ctr_top_groups.value)
          /\ ~InSeq(NoisePhrase, pvars.v.exposure_phrases.value)
          /\ ~InSeq(NoisePhrase, pvars.v.ctr_phrases.value)
          /\ \A i \in 1..Len(pvars.v.phrase_info_text.lines) :
                pvars.v.phrase_info_text.lines[i].phrase # NoisePhrase
          /\ \A i \in 1..Len(pvars.v.phrase_info_text_ctr.lines) :
                pvars.v.phrase_info_text_ctr.lines[i].phrase # NoisePhrase
    /\ \A i \in 1..Len(chartSel.rows) : chartSel.rows[i].phrase # NoisePhrase

C8_Witness ==
    /\ pvars.built
    /\ chartSel.kind = "ok"
    /\ insightTag
    /\ Len(phrase_data) \in 2..TopN
    /\ phrase_data[1].phrase = NoisePhrase
    /\ pvars.v.exposure_phrases.present
    /\ chartSel.rows # <<>>

\* The ranking key of the record a view's entry names.
KeyOf(name, f) == IF name \in 1..Len(phrase_data) THEN phrase_data[name][f] ELSE -1

\* A view holds at most TopN names, its keys never increase, and names with
\* equal keys are in input order.
RankedView(view, f) ==
    /\ Len(view) <= TopN
    /\ \A i \in 1..Len(view), j \in 1..Len(view) :
          i < j => /\ KeyOf(view[i], f) >= KeyOf(view[j], f)
                   /\ KeyOf(view[i], f) = KeyOf(view[j], f) => view[i] < view[j]

\* C9: the top-by-impressions and the top-by-CTR views each hold at most 5
\* items, ordered non-increasing by their key, equal keys in input order.
C9_TopViewsRankedStable ==
    pvars.built =>
        /\ RankedView(pvars.v.chart1_top_groups.value, "total_impressions")
        /\ RankedView(pvars.v.exposure_phrases.value, "total_impressions")
        /\ RankedView(pvars.v.ctr_top_groups.value, "avg_ctr")
        /\ RankedView(pvars.v.ctr_phrases.value, "avg_ctr")

C9_Witness ==
    /\ pvars.built
    /\ Len(FilterNoise(phrase_data)) > TopN
    /\ Len(pvars.v.chart1_top_groups.value) = TopN
    /\ \E i \in 1..(TopN - 1) :
          KeyOf(pvars.v.chart1_top_groups.value[i], "total_impressions")
            = KeyOf(pvars.v.chart1_top_groups.value[i + 1], "total_impressions")
    /\ \E i \in 1..(TopN - 1) :
          KeyOf(pvars.v.ctr_top_groups.value[i], "avg_ctr")
            > KeyOf(pvars.v.ctr_top_groups.value[i + 1], "avg_ctr")

(***************************************************************************)
(* Claims about generate_report (ReportSpec).                              *)
(***************************************************************************)

CallIdx == 1..Len(calls)
OccIdx == 1..Len(tags)

\* C1: an exception raised while resolving one occurrence is caught for that
\* occurrence only: no exception leaves generate_report, the occurrences of a
\* slide are dispatched in order up to the last one whatever the earlier ones
\* did, the run is never stuck before the save, and the save comes after the
\* last slide of the document.
C1_FailureIsolated ==
    /\ rpc # "aborted"
    /\ \A i \in OccIdx : (phase = "DONE" \/ i < pos) => status[i] # "pending"
    /\ rpc = "run" => ENABLED ReportNext
    /\ rpc = "saved" => slideIdx = MaxSlides /\ phase = "DONE"

\* A saved run whose first slide had a failing occurrence and whose second
\* slide had a failing occurrence followed by a resolved one.
C1_Witness ==
    /\ rpc = "saved"
    /\ slideIdx = 2
    /\ earlierFailure
    /\ status = <<"failed", "ok">>

IsPrefix(s, t) == Len(s) <= Len(t) /\ \A i \in 1..Len(s) : s[i] = t[i]

\* C2: a slide goes through SCAN, PRODUCER_TAGS, REMAINING_TAGS, DONE in that
\* order (SCAN, DONE when it has no tags), and by the time any occurrence is
\* dispatched the generation of each producer tag the slide carries has been
\* called, before every call made by the dispatch loop.
C2_ProducersFirst ==
    /\ slideIdx > 0 =>
          /\ phase = trace[Len(trace)]
          /\ \/ IsPrefix(trace, <<"SCAN", "PRODUCER_TAGS", "REMAINING_TAGS", "DONE">>)
             \/ trace = <<"SCAN", "DONE">> /\ tags = <<>>
    /\ \A i \in CallIdx, j \in CallIdx :
          calls[i].phase = "PRODUCER_TAGS" /\ calls[j].phase = "REMAINING_TAGS" => i < j
    /\ \A i \in OccIdx :
          status[i] # "pending" =>
             \A k \in OccIdx :
                tags[k] \in ProducerTags =>
                   \E c \in CallIdx : calls[c].tag = tags[k] /\ calls[c].phase = "PRODUCER_TAGS"

\* A finished slide whose producer tag is scanned after an insight tag and
\* was generated before it.
C2_Witness ==
    /\ phase = "DONE"
    /\ tags = <<"INSIGHT1_AREA", "KEYWORD1_AREA">>
    /\ Len(calls) >= 2
    /\ calls[1].tag = "KEYWORD1_AREA"
    /\ calls[1].phase = "PRODUCER_TAGS"
    /\ calls[Len(calls)].tag = "INSIGHT1_AREA"

\* C3: a producer tag's text is generated at most once per slide: every
\* generation call for KEYWORD1_AREA or KEYWORD2_AREA is made in the
\* PRODUCER_TAGS phase, and there is at most one per tag.
C3_ProducerGeneratedOnce ==
    /\ \A i \in CallIdx : calls[i].tag \in ProducerTags => calls[i].phase = "PRODUCER_TAGS"
    /\ \A i \in CallIdx, j \in CallIdx :
          calls[i].tag \in ProducerTags /\ calls[i].tag = calls[j].tag => i = j

\* C4: once the KEYWORD1_AREA producer has written insight_title, the slide
\* context keeps that value, every later prompt is built with it, and no
\* title-generation call is issued on the slide.
C4_CachedTitleObserved ==
    keyword1_text # "None" =>
       /\ slide_context.insight_title = keyword1_text
       /\ \A i \in CallIdx : calls[i].kind # "title"
       /\ \A i \in CallIdx :
             i > 1 /\ calls[i].kind = "main" => calls[i].title = keyword1_text

\* An insight tag and a describing tag both resolved with the producer's text
\* as their insight_title.
C4_Witness ==
    /\ phase = "DONE"
    /\ keyword1_text = "KEYWORD1_AREA"
    /\ \E i \in CallIdx : calls[i].tag \in InsightTags /\ calls[i].title = keyword1_text
    /\ phrase_data # <<>> /\ phrase_data[1].phrase # NoisePhrase

HasRanked == HasInsightPhrases(phrase_data)

\* C5 as stated: every insight tag's main prompt is built with a title (the
\* secondary call was issued and its result stored), and the secondary call
\* happens at most once per slide.
C5_TitleOncePerSlide ==
    /\ \A i \in CallIdx :
          calls[i].kind = "main" /\ calls[i].tag \in InsightTags => calls[i].title # "None"
    /\ \A i \in CallIdx, j \in CallIdx :
          calls[i].kind = "title" /\ calls[j].kind = "title" => i = j

\* C5, amended: with at least one non-noise phrase record, an insight tag
\* resolved without a cached insight_title issues the title call first; when
\* that call returns, its result is in the slide context before the tag's
\* main prompt is built, every later prompt of the slide is built with it, and
\* no further title call is issued on the slide.  Without ranked phrase lists
\* no title call is issued at all.
C5_TitleStoredWhenReturned ==
    /\ \A i \in CallIdx :
          calls[i].kind = "title" =>
             /\ HasRanked
             /\ calls[i].tag \in InsightTags
             /\ calls[i].outcome # "fail" =>
                   /\ i < Len(calls)
                   /\ calls[i + 1].kind = "main"
                   /\ calls[i + 1].tag = calls[i].tag
                   /\ slide_context.insight_title = TitleText(calls[i].outcome)
                   /\ \A j \in CallIdx :
                         j > i => /\ calls[j].kind = "main"
                                  /\ calls[j].title = TitleText(calls[i].outcome)
    /\ \A i \in CallIdx :
          /\ calls[i].kind = "main"
          /\ calls[i].tag \in InsightTags
          /\ calls[i].title = "None"
          => ~HasRanked

\* Two insight tags on one slide: the first issued the title call, the second
\* was resolved with the stored title and no call of its own.
C5_Witness ==
    /\ phase = "DONE"
    /\ tags = <<"INSIGHT1_AREA", "INSIGHT_TITLE_AREA">>
    /\ Len(calls) = 3
    /\ calls[1].kind = "title" /\ calls[1].outcome = "ok"
    /\ calls[2].title = "TITLE"
    /\ calls[3].tag = "INSIGHT_TITLE_AREA" /\ calls[3].title = "TITLE"

(***************************************************************************)
(* Claims about fetch_monthly_temp (FetchFairSpec).                        *)
(***************************************************************************)

LastAttempt == attemptLog[Len(attemptLog)]

C10_RetryPolicy ==
    /\ Len(attemptLog) <= max_retries
    /\ \A i \in 1..(Len(attemptLog) - 1) : attemptLog[i] \in {"timeout", "connection_error"}
    /\ fpc = "request" =>
          /\ Len(attemptLog) = attempt
          /\ attempt < max_retries
          /\ Len(waits) = Len(attemptLog)
    /\ fpc \in {"parse", "returned"} =>
          /\ attemptLog # <<>>
          /\ Len(waits) = Len(attemptLog) - 1
    /\ \A i \in 1..Len(waits) : waits[i] = 2 * i
    /\ fpc = "parse" => LastAttempt = "response" /\ fetched.kind = "pending"
    /\ fpc = "returned" =>
          /\ fetched.kind \in {"None", "table"}
          /\ LastAttempt # "response" => fetched.kind = "None"
          /\ LastAttempt = "response" /\ Len(res.text) < 2 => fetched.kind = "None"

BareNarrativeTemplate(t) == Len(t) = 3 /\ Referenced(t) \in NarrativeVars

\* C11: when every fetch attempt of the collection raised a connection error,
\* get_weather_analysis returns a result that has an error and no true
\* data_available, and the prompt of a template that references a narrative
\* variable is then built without an exception, the narrative rendered as the
\* empty string.
C11_ConnectionErrorsGiveEmptyNarratives ==
    /\ (wpc = "analysed" /\ onlyConnErrors) =>
          /\ wanalysis.state = "result"
          /\ wanalysis.w.error
          /\ ~DataAvailable(wanalysis.w)
    /\ (wpc = "prompt" /\ onlyConnErrors /\ BareNarrativeTemplate(wtemplate)) =>
          wprompt = Ok(<<>>)

\* build_prompt was handed a context without an available weather analysis.
Unavailable(c) == ~c.present \/ ~DataAvailable(c.w)

\* C12: without an available weather analysis in the context (none at all, or
\* one whose data_available is false or absent), build_prompt binds each of the
\* nine numeric weather variables to the not-available sentinel and both
\* narrative variables to the empty string, and the substitution does not raise.
C12_UnavailableBindsSentinels ==
    (wpc \in {"vars", "prompt"} /\ Unavailable(wcontext)) =>
        /\ \A n \in NumericVars : wvars[n] = NotAvailable
        /\ \A n \in NarrativeVars : wvars[n] = EmptyText
        /\ wpc = "prompt" => wprompt.kind = "ok"

\* C13: with data_available true, weather_comparison is the above-average text
\* with the difference when diff_from_avg > 0, the below-average text with its
\* absolute value when diff_from_avg < 0 and the similar text when it is 0 (or
\* missing); weather_normal_comparison is chosen the same way from
\* diff_from_normal alone.
ExpectedNarrative(d) ==
    IF d > 0 THEN [kind |-> "above", x |-> d]
    ELSE IF d < 0 THEN [kind |-> "below", x |-> 0 - d]
    ELSE [kind |-> "similar", x |-> 0]

C13_NarrativeBySign ==
    (wpc \in {"vars", "prompt"} /\ wcontext.present /\ DataAvailable(wcontext.w)) =>
        /\ wvars["weather_comparison"] = ExpectedNarrative(GetDiff(wcontext.w.diff_from_avg))
        /\ wvars["weather_normal_comparison"] =
              ExpectedNarrative(GetDiff(wcontext.w.diff_from_normal))
        /\ (wpc = "prompt" /\ BareNarrativeTemplate(wtemplate)) =>
              wprompt = Ok(<<wvars[Referenced(wtemplate)].kind>>)

C13_Witness ==
    /\ wpc = "prompt"
    /\ wcontext.present /\ DataAvailable(wcontext.w)
    /\ wcontext.w.diff_from_avg = [has |-> TRUE, v |-> 0]
    /\ wcontext.w.diff_from_normal = [has |-> TRUE, v |-> 0 - 1]
    /\ wtemplate = <<"{", "weather_normal_comparison", "}">>
    /\ wprompt = Ok(<<"below">>)

(***************************************************************************)
(* Claims about the bubble chart (checked under ChartSpec).                *)
(***************************************************************************)

\* The chart call has happened.
Rendered == chartSel.kind # "none"

\* C14: the chart draws min(top_n, number of non-noise records) bubbles, none
\* for the noise phrase, each for a different record of the data; no record
\* left out has a larger metric value than a drawn one; and the bubbles are
\* drawn in non-increasing order of size (and of metric value).
C14_LargestBubblesLargestFirst ==
    Rendered =>
        LET nn == FilterNoise(phrase_data)
            b == chartOut.bubbles
            m == chartOut.metric
            drawn == {b[i].phrase : i \in 1..Len(b)}
        IN  /\ Len(b) = Min(chartOut.top_n, Len(nn))
            /\ \A i \in 1..Len(b) : b[i].phrase # NoisePhrase
            /\ Cardinality(drawn) = Len(b)
            /\ \A i \in 1..Len(b) :
                  \E j \in 1..Len(nn) : nn[j].phrase = b[i].phrase /\ nn[j][m] = b[i].value
            /\ \A j \in 1..Len(nn) :
                  nn[j].phrase \notin drawn => \A i \in 1..Len(b) : nn[j][m] <= b[i].value
            /\ \A i \in 1..Len(b) : \A j \in i..Len(b) :
                  b[i].size >= b[j].size /\ b[i].value >= b[j].value

\* Three bubbles of five records, one of them the noise record, and a record
\* left out; the first bubble is larger than the last.
C14_Witness ==
    /\ chartSel.kind = "ok"
    /\ Len(phrase_data) = 5
    /\ Len(FilterNoise(phrase_data)) = 4
    /\ chartOut.top_n = 3
    /\ Len(chartOut.bubbles) = 3
    /\ chartOut.bubbles[1].size > chartOut.bubbles[3].size

\* C15: the sizes lie in 10..100, the smallest metric value of the selection
\* gets 10 and the largest 100; when all selected records have the same metric
\* value (one record included) every bubble has size 50; the colour ratio lies
\* in 0..1, is 0 at the smallest and 1 at the largest value of the colour
\* metric, and is 0.5 when the colour metric is the same for all.
C15_SizeAndColourNormalised ==
    (Rendered /\ chartSel.kind = "ok" /\ chartSel.rows # <<>>) =>
        LET rows == chartSel.rows
            b == chartOut.bubbles
            m == chartOut.metric
            c == ColorColumn(chartOut.color_metric)
            row(i) == CHOOSE r \in {rows[j] : j \in 1..Len(rows)} : r.phrase = b[i].phrase
            sameSize == \A i \in 1..Len(rows) : rows[i][m] = rows[1][m]
            sameColour == \A i \in 1..Len(rows) : rows[i][c] = rows[1][c]
        IN  /\ \A i \in 1..Len(b) : b[i].size \in 10..100 /\ b[i].ratio \in 0..100
            /\ sameSize => \A i \in 1..Len(b) : b[i].size = 50
            /\ ~sameSize => \A i \in 1..Len(b) :
                  /\ (row(i)[m] = MaxOf(rows, m)) <=> (b[i].size = 100)
                  /\ (row(i)[m] = MinOf(rows, m)) <=> (b[i].size = 10)
            /\ sameColour => \A i \in 1..Len(b) : b[i].ratio = 50
            /\ ~sameColour => \A i \in 1..Len(b) :
                  /\ (row(i)[c] = MaxOf(rows, c)) <=> (b[i].ratio = 100)
                  /\ (row(i)[c] = MinOf(rows, c)) <=> (b[i].ratio = 0)

\* Three sizes in one chart, and a chart whose sizes differ while its colour
\* metric is constant.
C15_Witness ==
    /\ chartSel.kind = "ok"
    /\ Len(chartOut.bubbles) = 3
    /\ chartOut.bubbles[1].size = 100
    /\ chartOut.bubbles[2].size = 55
    /\ chartOut.bubbles[3].size = 10

C15_WitnessConstant ==
    /\ chartSel.kind = "ok"
    /\ Len(chartOut.bubbles) >= 2
    /\ \A i \in 1..Len(chartOut.bubbles) : chartOut.bubbles[i].size = 50

\* C16: with no record to draw (an empty phrase list, or only noise records)
\* the chart call returns normally, draws no bubble and leaves the marker shape
\* on the slide.
C16_EmptySelectionIsNoOp ==
    (Rendered /\ FilterNoise(phrase_data) = <<>>) =>
        /\ chartSel.kind = "ok"
        /\ chartOut.bubbles = <<>>
        /\ chartOut.marker = "present"

(***************************************************************************)
(* Claims about one process_tag call (checked under TagSpec).              *)
(***************************************************************************)

CallsOfKind(cs, kind) == {i \in 1..Len(cs) : cs[i].kind = kind}

\* C17: one call sends each prompt at most once (the title prompt, when
\* there is one, before the main prompt), and a failed request is the last
\* one: the call raises and no text reaches the shape.
C17_NoRetry ==
    tpc = "returned" =>
        LET cs == tresult.calls
        IN  /\ Cardinality(CallsOfKind(cs, "title")) <= 1
            /\ Cardinality(CallsOfKind(cs, "main")) <= 1
            /\ \A i \in CallsOfKind(cs, "title") : i = 1
            /\ \A i \in 1..Len(cs) :
                  cs[i].outcome = "fail" =>
                      /\ i = Len(cs)
                      /\ tresult.raised
                      /\ tresult.status = "failed"
                      /\ tresult.filled = "unfilled"

\* The title request failed: it is the only request of the call.
C17_Witness ==
    /\ tpc = "returned"
    /\ Len(tresult.calls) = 1
    /\ tresult.calls[1].kind = "title"
    /\ tresult.calls[1].outcome = "fail"
    /\ tresult.raised

\* C18: a call for ANALYSIS_AREA or PRODUCT_AREA, of whatever type, makes no
\* generation request and renders no chart, returns without an exception, and
\* leaves the shape and the slide context as they were.
C18_SkipTagsSkipped ==
    (tpc = "returned" /\ ttag \in {"ANALYSIS_AREA", "PRODUCT_AREA"}) =>
        /\ tresult.calls = <<>>
        /\ tresult.status = "skipped"
        /\ ~tresult.raised
        /\ tresult.filled = "unfilled"
        /\ tresult.ctx = tctx

C18_Witness ==
    /\ tpc = "returned"
    /\ ttag = "PRODUCT_AREA"
    /\ ttype = "chart"
    /\ tresult.status = "skipped"

\* C19, for process_tag alone: a call for a tag of type asset or composite makes
\* no generation request, raises nothing, and leaves the shape (the marker text
\* with it) and the slide context as they were.
C19_ProcessTagLeavesUntouched ==
    (tpc = "returned" /\ ttype \in {"asset", "composite"}) =>
        /\ tresult.calls = <<>>
        /\ tresult.status \in {"todo", "skipped"}
        /\ ~tresult.raised
        /\ tresult.filled = "unfilled"
        /\ tresult.ctx = tctx

C19_Witness ==
    /\ tpc = "returned"
    /\ ttag \in InsightTags
    /\ ttype = "composite"
    /\ tctx.insight_title = "absent"
    /\ HasInsightPhrases(phrase_data)
    /\ tresult.status = "todo"

(***************************************************************************)
(* Claims about the run (checked under ConfiguredSpec and MainSpec).       *)
(***************************************************************************)

\* C19: in a run, an occurrence of a tag whose configured type is asset or
\* composite is left untouched: no generation request is made for the tag, its
\* shape keeps its text, and nothing is raised for it.
C19_AssetCompositeUntouched ==
    \A i \in OccIdx :
        TagType(tags[i]) \in {"asset", "composite"} =>
            /\ status[i] \in {"pending", "todo", "skipped"}
            /\ filled[i] = "unfilled"
            /\ \A c \in CallIdx : calls[c].tag # tags[i]

\* get_weather_analysis raised, or returned a result without a true data_available.
WeatherFailed == wanalysis.state = "failed"

\* C20: when the weather analysis raises or returns a result without a true
\* data_available, main hands generate_report an empty weather analysis, no
\* slide context of the run has a weather_analysis entry, and generate_report
\* runs on to the save of the document: no exception leaves it, it is never
\* stuck before the save, and the save comes after the last slide.
C20_WeatherFailureDoesNotBlock ==
    /\ (rpc # "main" /\ WeatherFailed) =>
          /\ wanalysis.w = EmptyDict
          /\ weather_analysis = FALSE
          /\ slide_context.weather_analysis = FALSE
    /\ rpc # "aborted"
    /\ rpc \in {"main", "run"} => ENABLED MainNext
    /\ rpc = "saved" => slideIdx = MaxSlides /\ phase = "DONE"

\* C20, as a property of the fair run: after a failed analysis the document is
\* eventually saved.
C20_EventuallySaved == (rpc = "run" /\ WeatherFailed) ~> (rpc = "saved")

\* A saved run after a failed analysis: its last slide had tags, and their
\* context had no weather entry.
C20_Witness ==
    /\ rpc = "saved"
    /\ WeatherFailed
    /\ Len(tags) = MaxOccurrences
    /\ \E i \in OccIdx : status[i] = "ok"
    /\ slide_context.weather_analysis = FALSE

(***************************************************************************)
(* Claims about build_prompt's variable sources (OverlaySpec).             *)
(***************************************************************************)

\* C21: every key of the slide context is bound, in the resolved variable
\* mapping, to the slide context's value, whatever the base variables, the
\* phrase context and the weather variables bind under the same name.
C21_SlideContextAlwaysOverlays ==
    overlay.pc = "built" => \A k \in overlay.ctx : overlay.vars[k] = "context"

(***************************************************************************)
(* Claims about generate_text_for_tag's prompts (GenSpec).                 *)
(***************************************************************************)

LastPart(p) == p.parts[Len(p.parts)]

\* C22: every prompt sent to the backend, the title prompt included, ends with
\* the language directive.
C22_EveryPromptEndsWithDirective ==
    \A i \in 1..Len(gen.sent) : LastPart(gen.sent[i]).kind = "language"

MainPromptsSent == {i \in 1..Len(gen.sent) : gen.sent[i].kind = "main"}
Configured(g) == {k \in DOMAIN g.limits : k # "other"}
\* max chars, approx chars, line count, max lines.
Position(k) ==
    IF k = "chars_max" THEN 1 ELSE IF k = "chars_approx" THEN 2 ELSE IF k = "lines" THEN 3 ELSE 4

\* C23: a main prompt is the substituted template, then the length clause
\* when the guideline names one of the four limits, then the language
\* directive; the clause lists each configured limit once, with its value, in
\* the order max chars, approx chars, line count, max lines; without such a
\* limit there is no clause; and the text returned is the stripped response,
\* whatever the limits.
C23_LengthClause ==
    /\ \A i \in MainPromptsSent :
          LET p == gen.sent[i]
              g == gen.guideline
              n == Len(p.parts)
          IN  /\ p.parts[1].kind = "template"
              /\ p.parts[n].kind = "language"
              /\ IF Configured(g) = {}
                 THEN n = 2
                 ELSE /\ n = 3
                      /\ p.parts[2].kind = "length"
                      /\ LET lim == p.parts[2].limits
                         IN  /\ Len(lim) = Cardinality(Configured(g))
                             /\ \A a \in 1..Len(lim) :
                                   /\ lim[a][1] \in Configured(g)
                                   /\ lim[a][2] = g.limits[lim[a][1]]
                             /\ \A a \in 1..Len(lim), b \in 1..Len(lim) :
                                   a < b => Position(lim[a][1]) < Position(lim[b][1])
    /\ gen.pc = "returned" /\ ~gen.raised => gen.text = Strip(gen.reply)

\* A guideline with max lines and max chars: the clause lists max chars first;
\* and the text returned is longer than the max chars configured.
C23_Witness ==
    /\ gen.pc = "returned"
    /\ ~gen.raised
    /\ DOMAIN gen.guideline.limits = {"lines_max", "chars_max", "other"}
    /\ gen.guideline.limits["chars_max"] = 1
    /\ Len(gen.sent) = 1
    /\ gen.sent[1].parts[2].limits = <<<<"chars_max", 1>>, <<"lines_max", 2>>>>
    /\ Len(gen.text) = 2

\* A guideline that is there but names none of the four limits: no clause.
C23_WitnessNoLimit ==
    /\ gen.pc = "returned"
    /\ DOMAIN gen.guideline.limits = {"other"}
    /\ Len(gen.sent) = 1
    /\ Len(gen.sent[1].parts) = 2

(***************************************************************************)
(* Claims about the slide context (MainSpec).                              *)
(***************************************************************************)

\* The slide's context is in use: its tags are being, or have been, resolved.
LiveContext == phase \in {"PRODUCER_TAGS", "REMAINING_TAGS"} \/ (phase = "DONE" /\ tags # <<>>)

\* A call of this slide, before its i-th, whose result was stored as insight_title.
TitleWrittenBefore(i, title) ==
    \E j \in CallIdx :
       /\ j < i
       /\ calls[j].outcome # "fail"
       /\ \/ calls[j].kind = "title" /\ TitleText(calls[j].outcome) = title
          \/ /\ calls[j].kind = "main"
             /\ calls[j].tag = "KEYWORD1_AREA"
             /\ calls[j].phase = "PRODUCER_TAGS"
             /\ GenText("KEYWORD1_AREA", calls[j].outcome) = title

\* C24: a slide with tags starts from a context that holds the run's weather
\* analysis and nothing else; every insight_title a prompt of the slide was
\* built with, and every insight_title and insight_title2 its context holds,
\* was produced by an earlier call of the same slide.
C24_ContextScopedToSlide ==
    /\ phase = "PRODUCER_TAGS" =>
          slide_context = [NoContext EXCEPT !.weather_analysis = weather_analysis]
    /\ \A i \in CallIdx :
          calls[i].title # "None" => TitleWrittenBefore(i, calls[i].title)
    /\ LiveContext /\ slide_context.insight_title # "absent" =>
          TitleWrittenBefore(Len(calls) + 1, slide_context.insight_title)
    /\ LiveContext /\ slide_context.insight_title2 # "absent" =>
          \E j \in CallIdx :
             /\ calls[j].tag = "KEYWORD2_AREA"
             /\ calls[j].phase = "PRODUCER_TAGS"
             /\ calls[j].outcome # "fail"
             /\ GenText("KEYWORD2_AREA", calls[j].outcome) = slide_context.insight_title2

\* The second slide is entered while the dictionary of the first, with the
\* titles written there, is still what the loop's variable holds.
C24_Witness ==
    /\ slideIdx = 2
    /\ phase = "SCAN"
    /\ calls = <<>>
    /\ weather_analysis
    /\ slide_context.insight_title = "TITLE"
    /\ slide_context.insight_title2 = "KEYWORD2_AREA"

(***************************************************************************)
(* Claims about a bubble's label (LabelSpec).                              *)
(***************************************************************************)

\* The lines of the label that hold the phrase (the last line is the value).
PhraseLines == SubSeq(label.lines, 1, Len(label.lines) - 1)

\* C25: a phrase longer than 15 characters is written on two lines, broken at
\* its first separator when it has one and at its midpoint otherwise; a phrase
\* of at most 15 characters is written on one line.
C25_LongLabelsWrapped ==
    label.pc = "drawn" =>
       LET p == label.phrase
       IN  IF Len(p) > 15
           THEN PhraseLines = (IF HasSeparator(p) THEN SplitAtSeparator(p)
                               ELSE SplitAtMidpoint(p))
           ELSE PhraseLines = <<p>>

(***************************************************************************)
(* Claims about the chart occurrences of a slide (ChartRunSpec).           *)
(***************************************************************************)

ChartOccurrences == {i \in 1..Len(chartRun.tags) : chartRun.tags[i].tag = ChartTag}
Dispatched(i) == i < chartRun.pos

\* C26: with a chart kind that is not recognised, every chart occurrence
\* fails, and only it: nothing is drawn, no marker shape is removed, no
\* exception leaves the run, every occurrence after it is dispatched, and the
\* run is never stuck before the save.
C26_UnknownKindFailsThatChartOnly ==
    chartRun.kind # "bubble" =>
       /\ chartRun.drawn = <<>>
       /\ chartRun.removed = <<>>
       /\ \A i \in 1..Len(chartRun.shapes) : chartRun.shapes[i].present
       /\ \A i \in ChartOccurrences : Dispatched(i) => chartRun.status[i] = "failed"
       /\ chartRun.pc # "aborted"
       /\ chartRun.pc # "saved" => ENABLED ChartRunNext
       /\ chartRun.pc = "saved" =>
             \A i \in 1..Len(chartRun.tags) : chartRun.status[i] # "pending"

\* A saved run whose chart occurrence failed on the chart kind and whose text
\* occurrence after it was resolved.
C26_Witness ==
    /\ chartRun.pc = "saved"
    /\ chartRun.kind = "pie"
    /\ Len(chartRun.tags) = 2
    /\ chartRun.tags[1].tag = ChartTag
    /\ chartRun.status = <<"failed", "ok">>
    /\ phrase_data # <<>> /\ phrase_data[1].phrase # NoisePhrase

\* C28: after the run, with data to draw, every marker shape of the chart tag
\* has exactly one set of bubbles, placed in its box, and has been removed
\* once, whether the tag was found in its name, in its text or in both; no set
\* of bubbles is placed anywhere else.
C28_OneChartPerMarker ==
    /\ chartRun.pc = "saved"
    /\ chartRun.kind = "bubble"
    /\ HasInsightPhrases(phrase_data)
    => /\ \A s \in 1..Len(chartRun.shapes) :
             chartRun.shapes[s].tag = ChartTag =>
                /\ Cardinality({d \in 1..Len(chartRun.drawn) : chartRun.drawn[d].at = s}) = 1
                /\ Cardinality({d \in 1..Len(chartRun.removed) : chartRun.removed[d] = s}) = 1
                /\ ~chartRun.shapes[s].present
       /\ \A d \in 1..Len(chartRun.drawn) : chartRun.drawn[d].at # 0

(***************************************************************************)
(* Claims about the weather cache file (CacheSpec).                        *)
(***************************************************************************)

\* This run has called fetch_monthly_temp.
FetchStarted == fpc # "idle" \/ monthIdx > 0

\* C27: in a run the cache file is read at most once, and not at all under a
\* forced refresh; it is written at most once, and only with every month the
\* run asked for: the file a later run loads is never short of months; and a
\* run that found the file and was not forced to refresh made no request.
C27_CacheWrittenOnlyWhenComplete ==
    /\ cache.reads <= 1
    /\ cache.force => cache.reads = 0
    /\ cache.writes <= 1
    /\ cache.file.exists /\ cache.file.readable => cache.file.months = cache.file.of
    /\ cache.returned = "cache" => cache.file.months = numMonths
    /\ cache.existed /\ ~cache.force => ~FetchStarted

(***************************************************************************)
(* Claims about the writes to the slide context (MainSpec).                *)
(***************************************************************************)

\* The generation calls of the step, and whether its last one raised.
NewCalls == SubSeq(calls', Len(calls) + 1, Len(calls'))
GenerationFailed == NewCalls # <<>> /\ NewCalls[Len(NewCalls)].outcome = "fail"
Changed(key) == slide_context'[key] # slide_context[key]

\* The title call of the step returned, and its title is what insight_title holds.
TitleStoredByStep ==
    /\ phase = "REMAINING_TAGS"
    /\ tags[pos] \in InsightTags
    /\ slide_context.insight_title = "absent"
    /\ NewCalls # <<>>
    /\ NewCalls[1].kind = "title"
    /\ NewCalls[1].outcome # "fail"
    /\ slide_context' = [slide_context EXCEPT !.insight_title = TitleText(NewCalls[1].outcome)]

\* Which step writes which key: the dictionary and its weather_analysis at the
\* start of a slide with tags, insight_title by the KEYWORD1_AREA producer or
\* by an insight tag's title call, insight_title2 by the KEYWORD2_AREA producer.
ContextWrites ==
    /\ phase = "SCAN" /\ slide_context' # slide_context =>
          /\ tags' # <<>>
          /\ slide_context' = [NoContext EXCEPT !.weather_analysis = weather_analysis]
    /\ phase # "SCAN" => ~Changed("weather_analysis")
    /\ phase # "SCAN" /\ Changed("insight_title2") =>
          /\ phase = "PRODUCER_TAGS"
          /\ HasTag("KEYWORD2_AREA")
          /\ keyword2_text' # "None"
          /\ slide_context'.insight_title2 = keyword2_text'
    /\ phase # "SCAN" /\ Changed("insight_title") =>
          \/ /\ phase = "PRODUCER_TAGS"
             /\ HasTag("KEYWORD1_AREA")
             /\ keyword1_text' # "None"
             /\ slide_context'.insight_title = keyword1_text'
          \/ TitleStoredByStep

\* A producer whose call raised (its text stays None) wrote nothing.
FailedProducerWritesNothing ==
    phase = "PRODUCER_TAGS" =>
       /\ keyword1_text' = "None" => ~Changed("insight_title")
       /\ keyword2_text' = "None" => ~Changed("insight_title2")

\* C29 as stated: the slide context is written only with weather_analysis at
\* the slide's start, insight_title by the KEYWORD1_AREA producer or an insight
\* tag's title call, and insight_title2 by the KEYWORD2_AREA producer, and a
\* generation that fails leaves the context as it was.
C29_FailedGenerationLeavesContext ==
    [][/\ ContextWrites
       /\ FailedProducerWritesNothing
       /\ phase = "REMAINING_TAGS" /\ GenerationFailed => slide_context' = slide_context]_vars

\* C29, amended: the same writes; a failed generation leaves the context as it
\* was, except that an insight tag whose title call returned and whose main
\* call raised leaves the new title under insight_title and nothing else.
C29_FailedGenerationKeepsStoredTitle ==
    [][/\ ContextWrites
       /\ FailedProducerWritesNothing
       /\ phase = "REMAINING_TAGS" /\ GenerationFailed /\ slide_context' # slide_context =>
             /\ TitleStoredByStep
             /\ Len(NewCalls) = 2
             /\ NewCalls[2].kind = "main"]_vars

\* An insight occurrence failed in its main call after its title call had
\* returned, and the title is in the slide context.
C29_Witness ==
    /\ phase \in {"REMAINING_TAGS", "DONE"}
    /\ slide_context.insight_title = "TITLE"
    /\ \E i \in 1..Len(tags) :
          /\ tags[i] \in InsightTags
          /\ status[i] = "failed"
    /\ \E j \in 1..(Len(calls) - 1) :
          /\ calls[j].kind = "title" /\ calls[j].outcome = "ok"
          /\ calls[j + 1].kind = "main" /\ calls[j + 1].outcome = "fail"
          /\ calls[j + 1].tag = calls[j].tag

(***************************************************************************)
(* Claims about the order of the run and its save (ReportSpec).            *)
(***************************************************************************)

\* The occurrences before pos have been dispatched, the others not yet.
DispatchedUpTo(n) ==
    \A i \in 1..Len(status) : (status[i] # "pending") <=> (i < n)

\* One step of the run keeps the order: the slide index moves by one, and only
\* from a finished slide; the dispatch loop takes the occurrence at pos and
\* moves to the next; a slide without tags gets no context and no call; the
\* save comes after the last slide, and nothing follows it.
OrderedStep ==
    /\ rpc # "saved"
    /\ slideIdx' \in {slideIdx, slideIdx + 1}
    /\ slideIdx' = slideIdx + 1 => phase = "DONE" /\ phase' = "SCAN" /\ rpc' = "run"
    /\ phase = "REMAINING_TAGS" =>
          /\ pos' = pos + 1
          /\ status[pos] = "pending"
          /\ status'[pos] # "pending"
          /\ \A i \in 1..Len(tags) : i # pos => status'[i] = status[i] /\ filled'[i] = filled[i]
          /\ tags' = tags
    /\ phase = "SCAN" /\ tags' = <<>> =>
          /\ phase' = "DONE"
          /\ slide_context' = slide_context
          /\ calls' = calls
    /\ rpc' = "saved" =>
          /\ rpc = "run"
          /\ slideIdx = MaxSlides
          /\ phase = "DONE"
          /\ UNCHANGED <<slideIdx, slideVars>>

\* C30: the slides are taken in document order and the occurrences of a slide
\* in scan order; the document is saved once, after the last slide, whatever
\* failures the occurrences reported; a slide without tags is passed over with
\* no context created and no generation call.
C30_OrderedRunSavedOnce ==
    /\ [][OrderedStep]_vars
    /\ [](phase = "REMAINING_TAGS" => DispatchedUpTo(pos))
    /\ [](rpc = "saved" => slideIdx = MaxSlides /\ phase = "DONE")
    /\ [](rpc = "run" /\ slideIdx = MaxSlides /\ phase = "DONE" => ENABLED SaveReport)
    /\ [](rpc \in {"run", "saved"})

\* The document was saved after a run with a failed occurrence on an earlier
\* slide and on the last one.
C30_Witness ==
    /\ rpc = "saved"
    /\ slideIdx = MaxSlides
    /\ earlierFailure
    /\ Len(tags) = MaxOccurrences
    /\ status[1] = "failed"
    /\ status[2] # "pending"

====
